---- MODULE Spec2Model ----
(***************************************************************************)
(* Model of the read-it-aloud content-to-podcast pipeline: the podcast     *)
(* store (in-memory and JSON-file variants of lib/db), the create route    *)
(* (synchronous and background variants of api/podcasts), the per-job      *)
(* pipeline run, the toggle and delete routes, and the transcript builder. *)
(*                                                                         *)
(* Text is a sequence of one-character strings.  Times are exact rationals *)
(* [num, den]; JavaScript computes them in IEEE doubles, so equalities     *)
(* between times proved here hold in the code up to floating rounding.     *)
(***************************************************************************)
EXTENDS Integers, Sequences, FiniteSets, TLC

VARIABLES deploy, db, blobs, runs, ops, call

vars == <<deploy, db, blobs, runs, ops, call>>

(***************************************************************************)
(* Bounds of the exploration.                                              *)
(***************************************************************************)
\* request slots for POST /api/podcasts
MaxJobs == 2

\* request slots for PATCH and DELETE
MaxOps == 2

\* total work explored in one behaviour: a request costs 2, a thrown
\* exception costs 1, a create request with a web url alone costs 3, and a
\* create request with any other input than the plain text costs MaxLoad,
\* so that it runs alone and without faults
MaxLoad == 4

\* the transcript builder is applied to scripts of up to
\* MaxSegments + ExtraSentences sentences
ExtraSentences == 2

\* and to the durations estimated for 1..MaxWords words
MaxWords == 3

(***************************************************************************)
(* Program constants.                                                      *)
(***************************************************************************)
MaxSegments == 100

WordsPerMinute == 150

SecondsPerMinute == 60

(***************************************************************************)
(* Text helpers: the JavaScript string operations the pipeline uses.       *)
(***************************************************************************)
Terminators == {".", "!", "?"}

IsWS(c) == c \in {" ", "\n", "\t"}

Range(s) == {s[i] : i \in DOMAIN s}

\* s.trim() is truthy: some character is not whitespace
NonBlank(s) == \E i \in DOMAIN s : ~IsWS(s[i])

\* first index >= i that is past the end or not whitespace
RECURSIVE SkipWS(_, _)
SkipWS(t, i) ==
    IF i > Len(t) \/ ~IsWS(t[i]) THEN i ELSE SkipWS(t, i + 1)

\* s.trim()
trim(s) ==
    IF ~NonBlank(s) THEN <<>>
    ELSE LET first == CHOOSE i \in DOMAIN s :
                          ~IsWS(s[i]) /\ \A k \in 1..(i - 1) : IsWS(s[k])
             last == CHOOSE i \in DOMAIN s :
                          ~IsWS(s[i]) /\ \A k \in (i + 1)..Len(s) : IsWS(s[k])
         IN SubSeq(s, first, last)

\* the elements of a set S of integers in 1..n, in increasing order
SortedSeq(S, n) == SelectSeq([i \in 1..n |-> i], LAMBDA i : i \in S)

\* String.prototype.split with a separator pattern: seps is the set of
\* positions where a match of the pattern starts, each match being the
\* whitespace run from there; the pieces between matches, empty pieces kept
SplitAt(t, seps) ==
    LET starts == SortedSeq(seps, Len(t))
        n == Len(starts)
    IN [k \in 1..(n + 1) |->
           SubSeq(t,
                  IF k = 1 THEN 1 ELSE SkipWS(t, starts[k - 1]),
                  IF k = n + 1 THEN Len(t) ELSE starts[k] - 1)]

\* the positions where a maximal whitespace run starts
wordBreaks(t) == {i \in DOMAIN t : IsWS(t[i]) /\ (i = 1 \/ ~IsWS(t[i - 1]))}

\* text.split(/\s+/): a match is a maximal whitespace run
splitWords(t) == SplitAt(t, wordBreaks(t))

\* text.split(/\s+/).length
wordCount(t) == Len(splitWords(t))

\* text.split(/(?<=[.!?])\s+/): a match is a whitespace run that directly
\* follows a sentence terminator
splitAfterTerminator(t) ==
    SplitAt(t, {i \in DOMAIN t : IsWS(t[i]) /\ i > 1 /\ t[i - 1] \in Terminators})

\* content.split(/(?<=[.!?])\s+/).filter(s => s.trim())
splitSentences(t) == SelectSeq(splitAfterTerminator(t), NonBlank)

(***************************************************************************)
(* Rational arithmetic for durations and segment times.                    *)
(***************************************************************************)
RECURSIVE GCD(_, _)
GCD(a, b) == IF b = 0 THEN a ELSE GCD(b, a % b)

\* the rational n / d (n >= 0, d > 0) in lowest terms
Rat(n, d) == [num |-> n \div GCD(n, d), den |-> d \div GCD(n, d)]

REq(a, b) == a.num * b.den = b.num * a.den

RLess(a, b) == a.num * b.den < b.num * a.den

\* Math.round of a non-negative rational: floor(x + 1/2)
MathRound(x) == (2 * x.num + x.den) \div (2 * x.den)

Max(a, b) == IF a >= b THEN a ELSE b

Min(a, b) == IF a <= b THEN a ELSE b

\* estimatedDuration = (wordCount / 150) * 60
\* the estimate without the conversion to seconds
estimatedDuration_InMinutes(text) == Rat(wordCount(text), WordsPerMinute)

\* (wordCount / 150) * 60
estimatedDuration(text) ==
    Rat(wordCount(text) * SecondsPerMinute, WordsPerMinute)

(***************************************************************************)
(* Transcript builder (step 5 of the pipeline).                            *)
(***************************************************************************)
\* the slice without the cap
sliceSentences_NoCap(sentences) == sentences

\* sentences.slice(0, 100)
sliceSentences(sentences) ==
    SubSeq(sentences, 1, Min(Len(sentences), MaxSegments))

\* the builder dividing the duration by the number of sentences it keeps
buildSegments_DivideByKept(content, duration) ==
    LET kept == sliceSentences(splitSentences(content))
        n == Max(Len(kept), 1)
    IN [i \in 1..Len(kept) |->
           [text |-> trim(kept[i]),
            startTime |-> Rat((i - 1) * duration.num, duration.den * n),
            endTime |-> Rat(i * duration.num, duration.den * n)]]

\* timePerSentence = duration / Math.max(sentences.length, 1);
\* segment i = {text.trim(), i * timePerSentence, (i + 1) * timePerSentence}
buildSegments(content, duration) ==
    LET sentences == splitSentences(content)
        n == Max(Len(sentences), 1)
        kept == sliceSentences(sentences)
    IN [i \in 1..Len(kept) |->
           [text |-> trim(kept[i]),
            startTime |-> Rat((i - 1) * duration.num, duration.den * n),
            endTime |-> Rat(i * duration.num, duration.den * n)]]

(***************************************************************************)
(* Inputs explored.  Texts are built from the characters a . space and     *)
(* newline.                                                                *)
(***************************************************************************)
\* n sentences "a." joined by single spaces
Sentences(n) ==
    [i \in 1..(3 * n - 1) |->
        IF i % 3 = 1 THEN "a" ELSE IF i % 3 = 2 THEN "." ELSE " "]

\* n words "a" joined by single spaces
Words(n) == [i \in 1..(2 * n - 1) |-> IF i % 2 = 1 THEN "a" ELSE " "]

\* option values: {} is undefined, {v} is the value v
None == {}

Some(v) == {v}

The(o) == CHOOSE v \in o : TRUE

TextWhitespace == <<" ">>

\* "a a. a": two sentences, three words, no title line
TextPlain == <<"a", " ", "a", ".", " ", "a">>

\* "a\na a. a a a.": title line, then two sentences and five words
TextTitled == <<"a", "\n">> \o Words(2) \o <<".", " ">> \o Words(3) \o <<".">>

\* more sentences than the transcript keeps
TextLong == Sentences(MaxSegments + 1)

SourceTexts == {TextWhitespace, TextPlain, TextTitled, TextLong}

\* a url is its hostname and the non-empty segments of its path
WebUrl == [host |-> "example.com", path |-> <<"post">>]

TweetUrl == [host |-> "x.com", path |-> <<"bob", "status", "1">>]

ProfileUrl == [host |-> "twitter.com", path |-> <<"bob">>]

\* work of a create request by its input
InputCost(url, text) ==
    IF url = None /\ text = Some(TextPlain) THEN 2
    ELSE IF url = Some(WebUrl) /\ text = None THEN 3
    ELSE MaxLoad

SourceUrls == {WebUrl, TweetUrl, ProfileUrl}

\* what a fetched page can yield as content
WebContents == {<<>>, TextPlain}

\* messages of exceptions thrown by external calls
ErrorMessages == {"", "boom"}

Statuses ==
    <<"pending", "extracting", "processing", "generating_audio",
      "uploading", "completed", "failed">>

\* position of a status in the forward sequence (failed is 7)
StatusRank(st) == CHOOSE i \in DOMAIN Statuses : Statuses[i] = st

Terminal == {"completed", "failed"}

(***************************************************************************)
(* The store (lib/db): a list of podcasts and a list of transcript         *)
(* segments.  The operators below are the bodies of the db functions       *)
(* applied to a database value d; the in-memory variant applies them to    *)
(* the live database in one step, the JSON-file variant applies them to    *)
(* the copy returned by readDb and writes the result back later.           *)
(***************************************************************************)
EmptyDb == [podcasts |-> <<>>, transcripts |-> <<>>]

ProcessingTitle ==
    <<"P", "r", "o", "c", "e", "s", "s", "i", "n", "g", ".", ".", ".">>

\* the record created with an empty errorMessage
newPodcast_EmptyError(id, url, text) ==
    [id |-> id,
     title |-> ProcessingTitle,
     sourceUrl |-> url,
     sourceText |-> text,
     status |-> "pending",
     errorMessage |-> Some(""),
     isPublic |-> FALSE,
     shareSlug |-> id,
     script |-> None,
     audioUrl |-> None,
     audioDurationSeconds |-> None,
     completedAt |-> None]

\* the record createPodcast builds; id and shareSlug are fresh tokens
newPodcast(id, url, text) ==
    [id |-> id,
     title |-> ProcessingTitle,
     sourceUrl |-> url,
     sourceText |-> text,
     status |-> "pending",
     errorMessage |-> None,
     isPublic |-> FALSE,
     shareSlug |-> id,
     script |-> None,
     audioUrl |-> None,
     audioDurationSeconds |-> None,
     completedAt |-> None]

\* db.podcasts.push(podcast)
createPodcast(d, id, url, text) ==
    [d EXCEPT !.podcasts = Append(@, newPodcast(id, url, text))]

\* findIndex(p => p.id === id); 0 stands for -1
findIndex(d, id) ==
    IF \E i \in DOMAIN d.podcasts : d.podcasts[i].id = id
    THEN CHOOSE i \in DOMAIN d.podcasts :
             d.podcasts[i].id = id
             /\ \A k \in 1..(i - 1) : d.podcasts[k].id # id
    ELSE 0

HasJob(d, id) == findIndex(d, id) # 0

\* getPodcast: the record; callers check HasJob first
getPodcast(d, id) == d.podcasts[findIndex(d, id)]

\* {...old, ...updates}: fields of updates replace those of old
mergeFields(old, updates) ==
    [f \in DOMAIN old |-> IF f \in DOMAIN updates THEN updates[f] ELSE old[f]]

\* updatePodcast: no change when the id is not found
updatePodcast(d, id, updates) ==
    IF ~HasJob(d, id) THEN d
    ELSE [d EXCEPT !.podcasts[findIndex(d, id)] = mergeFields(@, updates)]

\* deletePodcast: remove the first record with the id and every segment of it
deletePodcast(d, id) ==
    IF ~HasJob(d, id) THEN d
    ELSE LET i == findIndex(d, id)
         IN [podcasts |-> SubSeq(d.podcasts, 1, i - 1)
                          \o SubSeq(d.podcasts, i + 1, Len(d.podcasts)),
             transcripts |-> SelectSeq(d.transcripts,
                                       LAMBDA t : t.podcastId # id)]

\* the batch numbering the segments from one
createTranscriptBatch_OneBased(d, id, segments) ==
    [d EXCEPT !.transcripts =
        @ \o [i \in 1..Len(segments) |->
                 [podcastId |-> id,
                  sentenceIndex |-> i,
                  text |-> segments[i].text,
                  startTime |-> segments[i].startTime,
                  endTime |-> segments[i].endTime]]]

\* createTranscriptBatch: push one segment per element, sentenceIndex = index
createTranscriptBatch(d, id, segments) ==
    [d EXCEPT !.transcripts =
        @ \o [i \in 1..Len(segments) |->
                 [podcastId |-> id,
                  sentenceIndex |-> i - 1,
                  text |-> segments[i].text,
                  startTime |-> segments[i].startTime,
                  endTime |-> segments[i].endTime]]]

\* .sort((a, b) => a.sentenceIndex - b.sentenceIndex): a stable sort
SortByIndex(s) ==
    LET place == [i \in DOMAIN s |->
                     Cardinality({k \in DOMAIN s :
                         \/ s[k].sentenceIndex < s[i].sentenceIndex
                         \/ s[k].sentenceIndex = s[i].sentenceIndex /\ k < i})]
    IN [p \in 1..Len(s) |-> s[CHOOSE i \in DOMAIN s : place[i] = p - 1]]

\* getTranscriptSegments: filter by podcastId, sort by sentenceIndex
getTranscriptSegments(d, id) ==
    SortByIndex(SelectSeq(d.transcripts, LAMBDA t : t.podcastId = id))


(***************************************************************************)
(* Content extractor, text mode (lib/extractor extractFromText).           *)
(***************************************************************************)
TitleLineMax == 100

TitleSentenceMax == 80

\* index of the first element of s that is in set cs, or Len(s) + 1
FirstIn(s, cs) ==
    IF \E i \in DOMAIN s : s[i] \in cs
    THEN CHOOSE i \in DOMAIN s :
             s[i] \in cs /\ \A k \in 1..(i - 1) : s[k] \notin cs
    ELSE Len(s) + 1

extractFromText(text) ==
    LET trimmed == trim(text)
        nl == FirstIn(trimmed, {"\n"})
        multiLine == nl <= Len(trimmed)
        firstLine == trim(SubSeq(trimmed, 1, nl - 1))
        firstSentence == SubSeq(text, 1, FirstIn(text, Terminators) - 1)
    IN IF Len(firstLine) <= TitleLineMax /\ multiLine
       THEN [title |-> firstLine,
             content |-> trim(SubSeq(trimmed, nl + 1, Len(trimmed)))]
       ELSE [title |->
                 SubSeq(firstSentence, 1, Min(Len(firstSentence), TitleSentenceMax))
                 \o (IF Len(firstSentence) > TitleSentenceMax
                     THEN <<".", ".", ".">> ELSE <<>>),
             content |-> text]

(***************************************************************************)
(* Twitter/X extractor (lib/twitter).                                      *)
(***************************************************************************)
TwitterHosts == {"twitter.com", "www.twitter.com", "x.com", "www.x.com"}

isTwitterUrl(url) == url.host \in TwitterHosts

\* the path segment after the first 'status' segment, if there is one
extractTweetId(url) ==
    LET at == FirstIn(url.path, {"status"})
    IN IF at < Len(url.path) THEN Some(url.path[at + 1]) ELSE None

\* the first path segment unless it is 'status'
extractUsername(url) ==
    IF Len(url.path) > 0 /\ url.path[1] # "status"
    THEN Some(url.path[1]) ELSE None

\* minimum content lengths of the three methods
FxMinLength == 50

RapidMinLength == 50

OembedMinLength == 30

\* a text of n characters
Chars(n) == [i \in 1..n |-> "a"]

\* 'Could not extract content'
RapidEmptyContent == Chars(25)

\* 'Tweet by @' followed by the author
OembedEmptyContent(author) == Chars(10) \o author

\* username || 'Unknown'
authorOf(username) == IF username = None THEN "Unknown" ELSE The(username)

\* the placeholder returned when every method failed: three sentences and
\* the url, in paragraphs
PlaceholderContent ==
    <<"a", ".", " ", "a", ".", "\n", "\n", "a", ".", "\n", "\n", "a">>

\* what a method yields when it is invoked: it throws, or it returns the
\* content it extracted (before the method's own default for no content)
TwLengths ==
    {0, OembedMinLength, OembedMinLength + 1, FxMinLength, FxMinLength + 1}

TwOutcomes ==
    {[throws |-> TRUE, content |-> <<>>]}
    \cup {[throws |-> FALSE, content |-> Chars(n)] : n \in TwLengths}

\* the third method invoked whenever the first failed
oembedAttempted_IgnoresRapid(fxOk, rapidOk) == ~fxOk

\* the third method is reached when neither earlier method returned
oembedAttempted(fxOk, rapidOk) == ~fxOk /\ ~rapidOk

\* every method failed, reported as an error
twitterPlaceholder_Throws(username, calls) ==
    [thrown |-> Some("All extraction methods failed"),
     calls |-> calls, from |-> "none",
     title |-> <<>>, content |-> <<>>, author |-> "Unknown"]

\* the result returned when every method failed
twitterPlaceholder(username, calls) ==
    [thrown |-> None, calls |-> calls, from |-> "placeholder",
     title |-> <<"Content from @",
                 IF username = None THEN "null" ELSE The(username)>>,
     content |-> PlaceholderContent, author |-> authorOf(username)]

\* fetchTwitterThread: rapidApiKey tells whether RAPIDAPI_KEY is set; fx,
\* rapid and oembed are what the three methods yield when invoked; oauthor
\* is the author of the oembed result (data.author_name || username), as a
\* text.  The result names the
\* methods invoked, in order, and the method the content comes from.
fetchTwitterThread(url, rapidApiKey, fx, rapid, oembed, oauthor) ==
    LET tweetId == extractTweetId(url)
        username == extractUsername(url)
        fxOk == ~fx.throws /\ Len(fx.content) > FxMinLength
        rapidTried == ~fxOk /\ rapidApiKey
        rapidContent == IF rapid.content = <<>> THEN RapidEmptyContent
                        ELSE rapid.content
        rapidOk == rapidTried /\ ~rapid.throws
                   /\ Len(rapidContent) > RapidMinLength
        oembedTried == oembedAttempted(fxOk, rapidOk)
        oembedContent == IF oembed.content = <<>> THEN OembedEmptyContent(oauthor)
                         ELSE oembed.content
        oembedOk == oembedTried /\ ~oembed.throws
                    /\ Len(oembedContent) > OembedMinLength
        calls == <<"fx">> \o (IF rapidTried THEN <<"rapid">> ELSE <<>>)
                 \o (IF oembedTried THEN <<"oembed">> ELSE <<>>)
    IN IF tweetId = None
       THEN [thrown |-> Some("Invalid Twitter URL: Could not extract tweet ID"),
             calls |-> <<>>, from |-> "none",
             title |-> <<>>, content |-> <<>>, author |-> "Unknown"]
       ELSE IF fxOk
       THEN [thrown |-> None, calls |-> calls, from |-> "fx",
             title |-> <<"Tweet by @", authorOf(username)>>,
             content |-> fx.content, author |-> authorOf(username)]
       ELSE IF rapidOk
       THEN [thrown |-> None, calls |-> calls, from |-> "rapid",
             title |-> <<"Thread by @", authorOf(username)>>,
             content |-> rapidContent, author |-> authorOf(username)]
       ELSE IF oembedOk
       THEN [thrown |-> None, calls |-> calls, from |-> "oembed",
             title |-> <<"Tweet by @">> \o oauthor,
             content |-> oembedContent, author |-> oauthor]
       ELSE twitterPlaceholder(username, calls)

\* author names an oembed response can carry
OembedAuthors == {Chars(3), Chars(OembedMinLength)}

\* every result fetchTwitterThread can give for url
TwitterResults(url) ==
    {fetchTwitterThread(url, key, fx, rapid, oembed, oauthor) :
        key \in BOOLEAN, fx \in TwOutcomes, rapid \in TwOutcomes,
        oembed \in TwOutcomes, oauthor \in OembedAuthors}

(***************************************************************************)
(* Speech synthesizer (lib/tts generateAudio).  A provider's outcome is    *)
(* what it does when called: it returns audio or throws msg.  An error     *)
(* message is the tuple of its parts.                                      *)
(***************************************************************************)
TtsOutcomes ==
    {[throws |-> FALSE, msg |-> ""]}
    \cup {[throws |-> TRUE, msg |-> m] : m \in ErrorMessages}

NoTtsMessage ==
    <<"No TTS service configured. Please add GOOGLE_CLOUD_API_KEY to .env.local">>

\* the result of a provider that returned: the audio is named by the provider
ttsResult(provider, calls, text) ==
    [thrown |-> None, from |-> provider, calls |-> calls,
     duration |-> estimatedDuration(text)]

ttsError(msg, calls) ==
    [thrown |-> Some(msg), from |-> "none", calls |-> calls,
     duration |-> Rat(0, 1)]

\* generateAudio giving up when the first provider is not configured
generateAudio_NoDirectFallback(text, googleKey, elevenLabsKey, google, eleven) ==
    IF googleKey
    THEN IF ~google.throws THEN ttsResult("google", <<"google">>, text)
         ELSE IF elevenLabsKey
         THEN IF ~eleven.throws
              THEN ttsResult("eleven", <<"google", "eleven">>, text)
              ELSE ttsError(<<"Both TTS services failed. Google: ", google.msg>>,
                            <<"google", "eleven">>)
         ELSE ttsError(<<google.msg>>, <<"google">>)
    ELSE ttsError(NoTtsMessage, <<>>)

\* generateAudio: googleKey and elevenLabsKey tell whether the providers'
\* API keys are set
generateAudio(text, googleKey, elevenLabsKey, google, eleven) ==
    IF googleKey
    THEN IF ~google.throws THEN ttsResult("google", <<"google">>, text)
         ELSE IF elevenLabsKey
         THEN IF ~eleven.throws
              THEN ttsResult("eleven", <<"google", "eleven">>, text)
              ELSE ttsError(<<"Both TTS services failed. Google: ", google.msg>>,
                            <<"google", "eleven">>)
         ELSE ttsError(<<google.msg>>, <<"google">>)
    ELSE IF elevenLabsKey
    THEN IF ~eleven.throws THEN ttsResult("eleven", <<"eleven">>, text)
         ELSE ttsError(<<eleven.msg>>, <<"eleven">>)
    ELSE ttsError(NoTtsMessage, <<>>)

(***************************************************************************)
(* Voice styles (lib/tts).  The three tables are object literals: a key    *)
(* they do not own is looked up on Object.prototype.                       *)
(***************************************************************************)
CanonicalStyles ==
    {"narrator", "storyteller", "professional", "podcast_host", "calm",
     "confident", "friendly", "deep"}

GOOGLE_VOICES ==
    [narrator |-> "en-US-Journey-D", storyteller |-> "en-US-Journey-F",
     professional |-> "en-US-Studio-M", podcast_host |-> "en-US-Studio-O",
     calm |-> "en-US-Neural2-A", confident |-> "en-US-Neural2-D",
     friendly |-> "en-US-Neural2-F", deep |-> "en-US-Neural2-J"]

ELEVENLABS_VOICES ==
    [narrator |-> "21m00Tcm4TlvDq8ikWAM", storyteller |-> "EXAVITQu4vr4xnSDxMaL",
     professional |-> "VR6AewLTigWG4xSOukaG", podcast_host |-> "TxGEqnHWrfWFTfGW9XjX",
     calm |-> "pNInz6obpgDQGcFmaJgB", confident |-> "yoZ06aMxZJJ28mfd3POQ",
     friendly |-> "jBpfuIE2acCO8z3wKNLl", deep |-> "ErXwobaYiN019PkySvjV"]

LegacyStyles ==
    {"news_anchor", "calm_female", "deep_narrator", "casual_podcast", "energetic"}

VOICE_STYLE_MAP ==
    [k \in LegacyStyles \cup CanonicalStyles |->
        CASE k = "news_anchor" -> "professional"
          [] k = "calm_female" -> "calm"
          [] k = "deep_narrator" -> "deep"
          [] k = "casual_podcast" -> "podcast_host"
          [] k = "energetic" -> "storyteller"
          [] OTHER -> k]

\* property names every object inherits from Object.prototype
PrototypeKeys ==
    {"constructor", "toString", "valueOf", "hasOwnProperty", "__proto__"}

\* an inherited property is a function or an object: truthy, and as a
\* property key it is a string no table owns and no object inherits
Inherited == "[inherited]"

Undefined == "undefined"

\* table[key] for a string key
lookup(table, key) ==
    IF key \in DOMAIN table THEN table[key]
    ELSE IF key \in PrototypeKeys THEN Inherited
    ELSE Undefined

\* VOICE_STYLE_MAP[voiceStyle] || 'narrator'
mappedStyle(voiceStyle) ==
    IF lookup(VOICE_STYLE_MAP, voiceStyle) = Undefined THEN "narrator"
    ELSE lookup(VOICE_STYLE_MAP, voiceStyle)

\* the voice lookup without the default
voiceFor_NoDefault(table, style) == lookup(table, style)

\* VOICES[mappedStyle] || VOICES.narrator
voiceFor(table, style) ==
    IF lookup(table, style) = Undefined THEN table.narrator
    ELSE lookup(table, style)

Providers == {"google", "eleven"}

VoiceTable(provider) ==
    IF provider = "google" THEN GOOGLE_VOICES ELSE ELEVENLABS_VOICES

\* styles a request can carry: the supported ones, misspelt ones, the
\* empty string and inherited property names
VoiceStyles ==
    LegacyStyles \cup CanonicalStyles \cup PrototypeKeys
    \cup {"", "robot", "Narrator", "NARRATOR", " narrator", "news-anchor",
          "calm_male", "undefined"}

(***************************************************************************)
(* Chunk splitter (lib/tts splitTextIntoChunks).                           *)
(***************************************************************************)
\* a character that UTF-8 encodes in two bytes
TwoByteChar == "é"

\* Buffer.byteLength(s, 'utf8')
RECURSIVE byteLength(_)
byteLength(s) ==
    IF s = <<>> THEN 0
    ELSE (IF Head(s) = TwoByteChar THEN 2 ELSE 1) + byteLength(Tail(s))

\* sentence.split(' '): the pieces between single spaces, empty ones kept
splitSpaces(s) ==
    LET spaces == SortedSeq({i \in DOMAIN s : s[i] = " "}, Len(s))
        n == Len(spaces)
    IN [k \in 1..(n + 1) |->
           SubSeq(s,
                  IF k = 1 THEN 1 ELSE spaces[k - 1] + 1,
                  IF k = n + 1 THEN Len(s) ELSE spaces[k] - 1)]

\* a ? `${a} ${b}` : b
joinOrStart(a, b) == IF a # <<>> THEN a \o <<" ">> \o b ELSE b

\* the loop over the words of a sentence that is too long by itself, from
\* word i on; gives the chunks pushed so far and the open word chunk
RECURSIVE wordLoop(_, _, _, _, _)
wordLoop(words, i, wordChunk, chunks, maxBytes) ==
    IF i > Len(words) THEN [chunks |-> chunks, wordChunk |-> wordChunk]
    ELSE IF byteLength(joinOrStart(wordChunk, words[i])) > maxBytes
    THEN wordLoop(words, i + 1, words[i],
                  IF wordChunk # <<>> THEN Append(chunks, wordChunk) ELSE chunks,
                  maxBytes)
    ELSE wordLoop(words, i + 1, joinOrStart(wordChunk, words[i]), chunks, maxBytes)

\* the loop over the sentences from sentence i on, and the final push
RECURSIVE sentenceLoop(_, _, _, _, _)
sentenceLoop(sentences, i, currentChunk, chunks, maxBytes) ==
    IF i > Len(sentences)
    THEN IF currentChunk # <<>> THEN Append(chunks, currentChunk) ELSE chunks
    ELSE IF byteLength(joinOrStart(currentChunk, sentences[i])) > maxBytes
    THEN IF currentChunk # <<>>
         THEN sentenceLoop(sentences, i + 1, sentences[i],
                           Append(chunks, currentChunk), maxBytes)
         ELSE LET w == wordLoop(splitSpaces(sentences[i]), 1, <<>>, chunks,
                                maxBytes)
              IN sentenceLoop(sentences, i + 1,
                              IF w.wordChunk # <<>> THEN w.wordChunk
                              ELSE currentChunk,
                              w.chunks, maxBytes)
    ELSE sentenceLoop(sentences, i + 1, joinOrStart(currentChunk, sentences[i]),
                      chunks, maxBytes)

\* the splitter without the push after the loop
splitTextIntoChunks_NoFinalPush(text, maxBytes) ==
    LET chunks == sentenceLoop(splitAfterTerminator(text), 1, <<>>, <<>>, maxBytes)
    IN SubSeq(chunks, 1, Len(chunks) - 1)

\* splitTextIntoChunks
splitTextIntoChunks(text, maxBytes) ==
    sentenceLoop(splitAfterTerminator(text), 1, <<>>, <<>>, maxBytes)

(***************************************************************************)
(* Summarizer (lib/openai).                                                *)
(***************************************************************************)
DurationTypes == {"2min", "5min", "10min", "full"}

\* DURATION_WORD_TARGETS
DURATION_WORD_TARGETS(durationType) ==
    CASE durationType = "2min" -> 300
      [] durationType = "5min" -> 750
      [] durationType = "10min" -> 1500
      [] durationType = "full" -> 0

\* the word count the content is cut to when no API key is configured
NoKeyWordTarget == 500

\* s with every whitespace run replaced by one space: the words of s joined
\* by ' ' (an empty first word when s starts with whitespace)
joinWords(s) ==
    LET kept == SortedSeq({i \in DOMAIN s :
                              ~IsWS(s[i]) \/ i = 1 \/ ~IsWS(s[i - 1])}, Len(s))
    IN [k \in 1..Len(kept) |-> IF IsWS(s[kept[k]]) THEN " " ELSE s[kept[k]]]

\* lastIndexOf over the three terminators, 1-based; 0 when there is none
lastSentenceEnd(s) ==
    IF \E i \in DOMAIN s : s[i] \in Terminators
    THEN CHOOSE i \in DOMAIN s :
             s[i] \in Terminators
             /\ \A k \in (i + 1)..Len(s) : s[k] \notin Terminators
    ELSE 0

\* truncateToWordCount: the first targetWords words joined by spaces, cut
\* back to the last terminator when its 0-based index exceeds
\* 0.7 * targetWords, else followed by '...'
truncateToWordCount(content, targetWords) ==
    IF wordCount(content) <= targetWords THEN content
    ELSE LET breaks == SortedSeq(wordBreaks(content), Len(content))
             targetContent == joinWords(SubSeq(content, 1, breaks[targetWords] - 1))
             last == lastSentenceEnd(targetContent)
         IN IF 10 * (last - 1) > 7 * targetWords
            THEN SubSeq(targetContent, 1, last)
            ELSE targetContent \o <<".", ".", ".">>

\* what the completion call can yield: None is a failed call or an empty
\* message, Some(s) is the message s
LlmResults == {None, Some(<<" ">>), Some(<<"a", ".", " ">>)}

\* whether summarizeForDuration reaches the completion request
llmCalled(content, durationType, apiKey) ==
    LET targetWords == DURATION_WORD_TARGETS(durationType)
    IN /\ apiKey
       /\ targetWords # 0
       /\ 10 * wordCount(content) > 12 * targetWords

\* summarizeForDuration whose fallback cuts to the no-key word count
summarizeForDuration_FallbackToNoKeyTarget(content, durationType, apiKey, llm) ==
    IF ~apiKey THEN truncateToWordCount(content, NoKeyWordTarget)
    ELSE IF ~llmCalled(content, durationType, apiKey) THEN content
    ELSE IF llm # None /\ NonBlank(The(llm)) THEN trim(The(llm))
    ELSE truncateToWordCount(content, NoKeyWordTarget)

\* summarizeForDuration; apiKey tells whether OPENAI_API_KEY is set
summarizeForDuration(content, durationType, apiKey, llm) ==
    IF ~apiKey THEN truncateToWordCount(content, NoKeyWordTarget)
    ELSE IF ~llmCalled(content, durationType, apiKey) THEN content
    ELSE IF llm # None /\ NonBlank(The(llm)) THEN trim(The(llm))
    ELSE truncateToWordCount(content, DURATION_WORD_TARGETS(durationType))

\* errorMessage: error.message || 'Unknown error'
failureMessage(msg) == IF msg = "" THEN "Unknown error" ELSE msg

\* message of the TypeError raised by completedPodcast!.id on null
NullDerefMessage == "Cannot read properties of null (reading 'id')"

(***************************************************************************)
(* Processes.  runs[j] is the create request of slot j and the pipeline    *)
(* run of the job it creates (the job's id is j); ops[o] is a toggle or    *)
(* delete request.  pc names the stage the process executes next; with     *)
(* the JSON-file store io = "write" means readDb has returned snap and     *)
(* writeDb of the pending operation has not happened yet.                  *)
(***************************************************************************)
Jobs == 1..MaxJobs

OpIds == 1..MaxOps

NoWrite == [op |-> "none"]

IdleRun ==
    [pc |-> "idle", url |-> None, text |-> None, script |-> <<>>,
     error |-> None, resp |-> None, crashed |-> FALSE, cost |-> 0,
     io |-> "none", snap |-> EmptyDb, pending |-> NoWrite]

IdleOp ==
    [kind |-> "none", id |-> 0, pc |-> "idle", seenPublic |-> FALSE,
     resp |-> None, cost |-> 0,
     io |-> "none", snap |-> EmptyDb, pending |-> NoWrite]

RECURSIVE SumCost(_, _)
SumCost(f, n) == IF n = 0 THEN 0 ELSE f[n].cost + SumCost(f, n - 1)

\* work spent so far
Load == SumCost(runs, MaxJobs) + SumCost(ops, MaxOps)

CanSpend(c) == Load + c <= MaxLoad

\* the locals of a finished request are dead
Finished(r) ==
    [r EXCEPT !.pc = "done", !.url = None, !.text = None, !.script = <<>>,
              !.error = None]

\* the body of the db function named by w, applied to database value d
ApplyWrite(d, id, w) ==
    CASE w.op = "create" -> createPodcast(d, id, w.url, w.text)
      [] w.op = "update" -> updatePodcast(d, id, w.updates)
      [] w.op = "batch" -> createTranscriptBatch(d, id, w.segments)
      [] w.op = "delete" -> deletePodcast(d, id)

\* updatePodcast and deletePodcast return before writeDb when the id is absent
NeedsWrite(d, id, w) == w.op \in {"create", "batch"} \/ HasJob(d, id)

\* the stages with the run started again after the final update
NextStage_RestartAfterComplete(pc) ==
    CASE pc = "idle" -> "start"
      [] pc = "start" -> "extract"
      [] pc = "extract" -> "summarize"
      [] pc = "summarize" -> "synthesize"
      [] pc = "synthesize" -> "upload"
      [] pc = "upload" -> "complete"
      [] pc = "complete" -> "start"
      [] pc = "catch" -> "done"

\* the stage after each stage of the try block
NextStage(pc) ==
    CASE pc = "idle" -> "start"
      [] pc = "start" -> "extract"
      [] pc = "extract" -> "summarize"
      [] pc = "summarize" -> "synthesize"
      [] pc = "synthesize" -> "upload"
      [] pc = "upload" -> "complete"
      [] pc = "complete" -> "done"
      [] pc = "catch" -> "done"

\* the response reporting a failed run with status 201
runFailedResponse_Created(msg) ==
    Some([code |-> 201, status |-> "failed",
          error |-> Some(failureMessage(msg))])

\* the synchronous route's response after the catch block: 500 with the
\* job's id, status failed and the error message
runFailedResponse(msg) ==
    Some([code |-> 500, status |-> "failed",
          error |-> Some(failureMessage(msg))])

\* the run after the store operation of stage r.pc has returned;
\* found tells whether updatePodcast returned a record
AfterStore(r, found) ==
    LET quiet == [r EXCEPT !.io = "none", !.snap = EmptyDb, !.pending = NoWrite]
    IN IF quiet.pc = "complete" /\ deploy.route = "sync"
       THEN IF found
            THEN [Finished(quiet) EXCEPT
                     !.resp = Some([code |-> 201, status |-> "completed",
                                    error |-> None])]
            ELSE [quiet EXCEPT !.pc = "catch", !.error = Some(NullDerefMessage)]
       ELSE IF quiet.pc = "catch" /\ deploy.route = "sync"
       THEN [Finished(quiet) EXCEPT
                !.resp = runFailedResponse(The(quiet.error))]
       ELSE IF NextStage(quiet.pc) = "done" THEN Finished(quiet)
       ELSE [quiet EXCEPT !.pc = NextStage(quiet.pc)]

\* the run after writeDb of stage r.pc threw msg
AfterWriteThrow(r, msg) ==
    LET quiet == [r EXCEPT !.io = "none", !.snap = EmptyDb, !.pending = NoWrite,
                           !.cost = @ + 1]
    IN IF quiet.pc = "idle"
       THEN [Finished(quiet) EXCEPT
                !.resp = Some([code |-> 500, status |-> "none",
                               error |-> Some(failureMessage(msg))])]
       ELSE IF quiet.pc = "catch"
       THEN [Finished(quiet) EXCEPT !.crashed = TRUE,
                !.resp = IF deploy.route = "sync"
                         THEN Some([code |-> 500, status |-> "none",
                                    error |-> Some(failureMessage(msg))])
                         ELSE @]
       ELSE [quiet EXCEPT !.pc = "catch", !.error = Some(msg)]

\* stage r.pc of run j issues store operation w: the in-memory store applies
\* it at once, the JSON-file store reads the database and writes it later
IssueStore(j, r, w) ==
    IF deploy.store = "memory"
    THEN /\ db' = ApplyWrite(db, j, w)
         /\ runs' = [runs EXCEPT ![j] = AfterStore(r, HasJob(db, j))]
    ELSE /\ db' = db
         /\ runs' = [runs EXCEPT ![j] =
                IF NeedsWrite(db, j, w)
                THEN [r EXCEPT !.io = "write", !.snap = db, !.pending = w]
                ELSE AfterStore(r, FALSE)]

Ready(j, pc) == runs[j].pc = pc /\ runs[j].io = "none"


(***************************************************************************)
(* POST /api/podcasts and the pipeline run.                                *)
(***************************************************************************)
\* request validation and createPodcast; slots are used in order
Create(j, url, text) ==
    /\ Ready(j, "idle")
    /\ \A k \in 1..(j - 1) : runs[k].pc # "idle"
    /\ CanSpend(InputCost(url, text))
    /\ IF url = None /\ text = None
       THEN /\ runs' = [runs EXCEPT ![j] =
                   [Finished(@) EXCEPT
                        !.cost = InputCost(url, text),
                        !.resp = Some([code |-> 400, status |-> "none",
                                       error |-> None])]]
            /\ db' = db
       ELSE IssueStore(j, [runs[j] EXCEPT !.url = url, !.text = text,
                                          !.cost = InputCost(url, text)],
                       [op |-> "create", url |-> url, text |-> text])
    /\ UNCHANGED <<deploy, blobs, ops, call>>

\* the run begins: status extracting; the background route answers the
\* create request with the record createPodcast returned
StartRun(j) ==
    /\ Ready(j, "start")
    /\ IssueStore(j,
           [runs[j] EXCEPT !.resp =
               IF deploy.route = "background"
               THEN Some([code |-> 201, status |-> "pending", error |-> None])
               ELSE @],
           [op |-> "update", updates |-> [status |-> "extracting"]])
    /\ UNCHANGED <<deploy, blobs, ops, call>>

\* a stage of the try block throws msg: control moves to the catch block
Throws(j, msg) ==
    /\ CanSpend(1)
    /\ runs' = [runs EXCEPT ![j] =
           [@ EXCEPT !.pc = "catch", !.error = Some(msg), !.cost = @ + 1]]

\* everything extractContent(url, text) can give, apart from the failures
\* of the web fetch: a url is tried first, then a text
extractContent(url, text) ==
    IF url # None
    THEN IF isTwitterUrl(The(url))
         THEN {[thrown |-> r.thrown, title |-> r.title, content |-> r.content] :
                  r \in TwitterResults(The(url))}
         ELSE {[thrown |-> None, title |-> ProcessingTitle, content |-> c] :
                  c \in WebContents}
    ELSE {[thrown |-> None, title |-> e.title, content |-> e.content] :
             e \in {extractFromText(The(text))}}

\* extractContent returns or throws; then title and status processing
Extract(j) ==
    /\ Ready(j, "extract")
    /\ \/ \E e \in extractContent(runs[j].url, runs[j].text) :
              /\ e.thrown = None
              /\ IssueStore(j, [runs[j] EXCEPT !.script = e.content],
                            [op |-> "update",
                             updates |-> [title |-> e.title,
                                          status |-> "processing"]])
       \/ /\ \E e \in extractContent(runs[j].url, runs[j].text) :
                 /\ e.thrown # None
                 /\ runs' = [runs EXCEPT ![j] =
                        [@ EXCEPT !.pc = "catch", !.error = e.thrown]]
          /\ db' = db
       \/ /\ runs[j].url # None
          /\ ~isTwitterUrl(The(runs[j].url))
          /\ \E msg \in ErrorMessages : Throws(j, msg)
          /\ db' = db
    /\ UNCHANGED <<deploy, blobs, ops, call>>

\* summarizeForDuration returns (it catches its own failures); then status
\* generating_audio.  The request's duration_type is read only here.
Summarize(j) ==
    /\ Ready(j, "summarize")
    /\ \E durationType \in DurationTypes, apiKey \in BOOLEAN, llm \in LlmResults :
           IssueStore(j,
               [runs[j] EXCEPT !.script =
                    summarizeForDuration(@, durationType, apiKey, llm)],
               [op |-> "update", updates |-> [status |-> "generating_audio"]])
    /\ UNCHANGED <<deploy, blobs, ops, call>>

\* generateAudio returns or throws; then status uploading
Synthesize(j) ==
    /\ Ready(j, "synthesize")
    /\ \/ IssueStore(j, runs[j],
                     [op |-> "update", updates |-> [status |-> "uploading"]])
       \/ /\ \E msg \in ErrorMessages : Throws(j, msg)
          /\ db' = db
    /\ UNCHANGED <<deploy, blobs, ops, call>>

\* uploadAudio returns or throws (after file.save or before it); on return
\* the segments are built and createTranscriptBatch is called
Upload(j) ==
    /\ Ready(j, "upload")
    /\ \/ /\ blobs' = blobs \cup {j}
          /\ IssueStore(j, runs[j],
                 [op |-> "batch",
                  segments |-> buildSegments(runs[j].script,
                                   estimatedDuration(runs[j].script))])
       \/ /\ \E msg \in ErrorMessages : Throws(j, msg)
          /\ blobs' \in {blobs, blobs \cup {j}}
          /\ db' = db
    /\ UNCHANGED <<deploy, ops, call>>

\* the update that marks the job completed
completedUpdates(j, script) ==
    [status |-> "completed",
     audioUrl |-> Some(j),
     audioDurationSeconds |-> Some(MathRound(estimatedDuration(script))),
     script |-> Some(script),
     completedAt |-> Some("now")]

Complete(j) ==
    /\ Ready(j, "complete")
    /\ IssueStore(j, runs[j],
           [op |-> "update", updates |-> completedUpdates(j, runs[j].script)])
    /\ UNCHANGED <<deploy, blobs, ops, call>>

\* the catch block's update without the message
failedUpdates_NoMessage(msg) == [status |-> "failed"]

\* the update the catch block makes
failedUpdates(msg) ==
    [status |-> "failed", errorMessage |-> Some(failureMessage(msg))]

\* the catch block
Fail(j) ==
    /\ Ready(j, "catch")
    /\ IssueStore(j, runs[j],
           [op |-> "update", updates |-> failedUpdates(The(runs[j].error))])
    /\ UNCHANGED <<deploy, blobs, ops, call>>

\* JSON-file store: writeDb of the pending operation succeeds or throws
WriteDb(j) ==
    /\ runs[j].io = "write"
    /\ \/ /\ db' = ApplyWrite(runs[j].snap, j, runs[j].pending)
          /\ runs' = [runs EXCEPT ![j] = AfterStore(@, TRUE)]
       \/ /\ CanSpend(1)
          /\ db' = db
          /\ \E msg \in ErrorMessages :
                 runs' = [runs EXCEPT ![j] = AfterWriteThrow(@, msg)]
    /\ UNCHANGED <<deploy, blobs, ops, call>>

(***************************************************************************)
(* PATCH and DELETE /api/podcasts/[id].                                    *)
(***************************************************************************)
\* getPodcast at the head of PATCH and DELETE: 404 when absent
OpGet(o, kind, id) ==
    /\ ops[o].pc = "idle"
    /\ \A k \in 1..(o - 1) : ops[k].pc # "idle"
    /\ CanSpend(2)
    /\ ops' = [ops EXCEPT ![o] =
           IF HasJob(db, id)
           THEN [@ EXCEPT !.kind = kind, !.id = id, !.pc = "got", !.cost = 2,
                          !.seenPublic = getPodcast(db, id).isPublic]
           ELSE [@ EXCEPT !.kind = kind, !.id = id, !.pc = "done", !.cost = 2,
                          !.resp = Some(404)]]
    /\ UNCHANGED <<deploy, db, blobs, runs, call>>

\* request o issues store operation w and answers with code
OpIssueStore(o, w, code) ==
    LET id == ops[o].id
    IN IF deploy.store = "memory" \/ ~NeedsWrite(db, id, w)
       THEN /\ db' = (IF deploy.store = "memory" THEN ApplyWrite(db, id, w) ELSE db)
            /\ ops' = [ops EXCEPT ![o] = [@ EXCEPT !.pc = "done", !.resp = Some(code)]]
       ELSE /\ db' = db
            /\ ops' = [ops EXCEPT ![o] =
                   [@ EXCEPT !.io = "write", !.snap = db, !.pending = w,
                             !.resp = Some(code)]]

\* PATCH: updatePodcast(id, {isPublic: !podcast.isPublic})
ToggleUpdate(o) ==
    /\ ops[o].pc = "got" /\ ops[o].kind = "toggle" /\ ops[o].io = "none"
    /\ OpIssueStore(o, [op |-> "update",
                        updates |-> [isPublic |-> ~ops[o].seenPublic]], 200)
    /\ UNCHANGED <<deploy, blobs, runs, call>>

\* DELETE: deleteAudio removes the job's files or fails silently
DeleteAudio(o) ==
    /\ ops[o].pc = "got" /\ ops[o].kind = "delete"
    /\ blobs' \in {blobs, blobs \ {ops[o].id}}
    /\ ops' = [ops EXCEPT ![o] = [@ EXCEPT !.pc = "blob"]]
    /\ UNCHANGED <<deploy, db, runs, call>>

\* DELETE: deletePodcast(id)
DeletePodcast(o) ==
    /\ ops[o].pc = "blob" /\ ops[o].io = "none"
    /\ OpIssueStore(o, [op |-> "delete"], 204)
    /\ UNCHANGED <<deploy, blobs, runs, call>>

\* JSON-file store: writeDb of a PATCH or DELETE succeeds or throws (500)
OpWriteDb(o) ==
    /\ ops[o].io = "write"
    /\ \/ /\ db' = ApplyWrite(ops[o].snap, ops[o].id, ops[o].pending)
          /\ ops' = [ops EXCEPT ![o] =
                 [@ EXCEPT !.pc = "done", !.io = "none", !.snap = EmptyDb,
                           !.pending = NoWrite]]
       \/ /\ CanSpend(1)
          /\ db' = db
          /\ ops' = [ops EXCEPT ![o] =
                 [@ EXCEPT !.pc = "done", !.io = "none", !.snap = EmptyDb,
                           !.pending = NoWrite, !.resp = Some(500),
                           !.cost = @ + 1]]
    /\ UNCHANGED <<deploy, blobs, runs, call>>

(***************************************************************************)
(* GET /api/public/[slug] and /api/public/[slug]/transcript.  Both routes  *)
(* read data/db.json themselves.                                           *)
(***************************************************************************)
\* getDb of the public routes: the parsed file, or the empty database when
\* the file cannot be read; only the JSON-file store writes the file
dbFile == IF deploy.store = "file" THEN db ELSE EmptyDb

\* db.podcasts.find(p => p.shareSlug === slug && p.isPublic); 0 when absent
findPublic(d, slug) ==
    IF \E i \in DOMAIN d.podcasts :
           d.podcasts[i].shareSlug = slug /\ d.podcasts[i].isPublic
    THEN CHOOSE i \in DOMAIN d.podcasts :
             /\ d.podcasts[i].shareSlug = slug /\ d.podcasts[i].isPublic
             /\ \A k \in 1..(i - 1) :
                    ~(d.podcasts[k].shareSlug = slug /\ d.podcasts[k].isPublic)
    ELSE 0

NotFound == [code |-> 404]

\* the response of GET /api/public/[slug]: the status code and, of the
\* body, the fields that identify the job
publicPodcast(d, slug) ==
    IF findPublic(d, slug) = 0 THEN NotFound
    ELSE LET podcast == d.podcasts[findPublic(d, slug)]
         IN [code |-> 200, id |-> podcast.id, share_slug |-> podcast.shareSlug]

\* the response of GET /api/public/[slug]/transcript
publicTranscript(d, slug) ==
    IF findPublic(d, slug) = 0 THEN NotFound
    ELSE LET podcast == d.podcasts[findPublic(d, slug)]
         IN [code |-> 200, id |-> podcast.id,
             segments |-> getTranscriptSegments(d, podcast.id)]

PublicKinds == {"podcast", "transcript"}

\* a public read by slug; call holds the last response
PublicRead(kind, slug) ==
    /\ call' = [fn |-> "public", kind |-> kind, slug |-> slug,
                resp |-> IF kind = "podcast" THEN publicPodcast(dbFile, slug)
                         ELSE publicTranscript(dbFile, slug)]
    /\ UNCHANGED <<deploy, db, blobs, runs, ops>>

(***************************************************************************)
(* GET /api/podcasts/[id]/transcript.  call holds the request: after       *)
(* getPodcast it is answered (404, 400) or goes on to                      *)
(* getTranscriptSegments.                                                  *)
(***************************************************************************)
\* the route that serves the transcript whatever the status
transcriptAvailable_Always(podcast) == TRUE

\* podcast.status !== 'completed' answers 400
transcriptAvailable(podcast) == podcast.status = "completed"

\* getPodcast and the two checks; seen is the status getPodcast returned
TranscriptGet(id) ==
    /\ call.fn = "none" \/ (call.fn = "transcript" /\ call.pc = "done")
    /\ call' =
           IF ~HasJob(db, id)
           THEN [fn |-> "transcript", id |-> id, pc |-> "done",
                 seen |-> "none", resp |-> NotFound]
           ELSE IF ~transcriptAvailable(getPodcast(db, id))
           THEN [fn |-> "transcript", id |-> id, pc |-> "done",
                 seen |-> getPodcast(db, id).status, resp |-> [code |-> 400]]
           ELSE [fn |-> "transcript", id |-> id, pc |-> "segments",
                 seen |-> getPodcast(db, id).status, resp |-> [code |-> 0]]
    /\ UNCHANGED <<deploy, db, blobs, runs, ops>>

\* getTranscriptSegments and the 200 response
TranscriptSegments ==
    /\ call.fn = "transcript" /\ call.pc = "segments"
    /\ call' = [call EXCEPT
           !.pc = "done",
           !.resp = [code |-> 200, id |-> call.id,
                     segments |-> getTranscriptSegments(db, call.id)]]
    /\ UNCHANGED <<deploy, db, blobs, runs, ops>>

(***************************************************************************)
(* The system.                                                             *)
(***************************************************************************)
Routes == {"sync", "background"}

Stores == {"memory", "file"}

NoCall == [fn |-> "none"]

Init ==
    /\ deploy \in [route : Routes, store : Stores]
    /\ db = EmptyDb
    /\ blobs = {}
    /\ runs = [j \in Jobs |-> IdleRun]
    /\ ops = [o \in OpIds |-> IdleOp]
    /\ call = NoCall

SourceOptions(vals) == {None} \cup {Some(v) : v \in vals}

Next ==
    \/ \E j \in Jobs, url \in SourceOptions(SourceUrls),
          text \in SourceOptions(SourceTexts) : Create(j, url, text)
    \/ \E j \in Jobs : StartRun(j)
    \/ \E j \in Jobs : Extract(j)
    \/ \E j \in Jobs : Summarize(j)
    \/ \E j \in Jobs : Synthesize(j)
    \/ \E j \in Jobs : Upload(j)
    \/ \E j \in Jobs : Complete(j)
    \/ \E j \in Jobs : Fail(j)
    \/ \E j \in Jobs : WriteDb(j)
    \/ \E o \in OpIds, kind \in {"toggle", "delete"}, id \in Jobs : OpGet(o, kind, id)
    \/ \E o \in OpIds : ToggleUpdate(o)
    \/ \E o \in OpIds : DeleteAudio(o)
    \/ \E o \in OpIds : DeletePodcast(o)
    \/ \E o \in OpIds : OpWriteDb(o)

Spec == Init /\ [][Next]_vars

TypeOK ==
    /\ deploy \in [route : Routes, store : Stores]
    /\ blobs \subseteq Jobs
    /\ \A i \in DOMAIN db.podcasts : db.podcasts[i].status \in Range(Statuses)


(***************************************************************************)
(* Transcript builder as a function: the inputs are drawn by InitBuild and *)
(* BuildTranscript applies buildSegments to them.                          *)
(***************************************************************************)
\* sentence i of a script whose sentences differ: (i % 3) + 1 letters
VariedSentence(i) == [k \in 1..((i % 3) + 1) |-> "a"] \o <<".">>

\* VariedSentence(1), ..., VariedSentence(n) separated by single spaces:
\* "aa. aaa. a. " repeated and cut after sentence n
VariedSentences(n) ==
    LET len == 12 * (n \div 3) + (IF n % 3 = 1 THEN 4
                                  ELSE IF n % 3 = 2 THEN 9 ELSE 0) - 1
    IN [p \in 1..len |->
           LET q == (p - 1) % 12
           IN IF q \in {2, 7, 10} THEN "."
              ELSE IF q \in {3, 8, 11} THEN " " ELSE "a"]

\* scripts with a known number of sentences
BuildScripts ==
    {[content |-> Sentences(n), n |-> n] : n \in 1..(MaxSegments + ExtraSentences)}
    \cup {[content |-> VariedSentences(n), n |-> n] :
              n \in {MaxSegments, MaxSegments + ExtraSentences}}
    \cup {[content |-> <<"a", "!", " ", " ", "a", " ", "a", "?", "\n", "a">>, n |-> 3],
          [content |-> <<" ", "a", ".", " ">>, n |-> 1]}

\* total durations: the estimates for 1..MaxWords words, and a whole number
BuildDurations ==
    {Rat(w * SecondsPerMinute, WordsPerMinute) : w \in 1..MaxWords} \cup {Rat(7, 1)}

InitBuild ==
    /\ deploy = [route |-> "sync", store |-> "memory"]
    /\ db = EmptyDb
    /\ blobs = {}
    /\ runs = [j \in Jobs |-> IdleRun]
    /\ ops = [o \in OpIds |-> IdleOp]
    /\ call \in {[fn |-> "build", content |-> sc.content, n |-> sc.n,
                  duration |-> d, done |-> FALSE, out |-> <<>>] :
                    sc \in BuildScripts, d \in BuildDurations}

BuildTranscript ==
    /\ call.fn = "build"
    /\ ~call.done
    /\ call' = [call EXCEPT !.done = TRUE,
                            !.out = buildSegments(call.content, call.duration)]
    /\ UNCHANGED <<deploy, db, blobs, runs, ops>>

NextBuild == BuildTranscript

SpecBuild == InitBuild /\ [][NextBuild]_vars

(***************************************************************************)
(* fetchTwitterThread as a function: the url, the configuration and what   *)
(* each method yields are drawn by InitTwitter, and FetchTwitter applies   *)
(* fetchTwitterThread to them.                                             *)
(***************************************************************************)
TwitterUrls ==
    {TweetUrl, ProfileUrl,
     [host |-> "www.x.com", path |-> <<"status", "1">>],
     [host |-> "x.com", path |-> <<"bob", "status">>],
     [host |-> "www.twitter.com", path |-> <<"bob", "status", "1", "photo">>]}

InitTwitter ==
    /\ deploy = [route |-> "sync", store |-> "memory"]
    /\ db = EmptyDb
    /\ blobs = {}
    /\ runs = [j \in Jobs |-> IdleRun]
    /\ ops = [o \in OpIds |-> IdleOp]
    /\ call \in {[fn |-> "twitter", url |-> url, rapidApiKey |-> key,
                  fx |-> fx, rapid |-> rapid, oembed |-> oembed,
                  oauthor |-> oauthor, done |-> FALSE, out |-> <<>>] :
                    url \in TwitterUrls, key \in BOOLEAN, fx \in TwOutcomes,
                    rapid \in TwOutcomes, oembed \in TwOutcomes,
                    oauthor \in OembedAuthors}

FetchTwitter ==
    /\ call.fn = "twitter"
    /\ ~call.done
    /\ call' = [call EXCEPT
           !.done = TRUE,
           !.out = fetchTwitterThread(call.url, call.rapidApiKey, call.fx,
                                      call.rapid, call.oembed, call.oauthor)]
    /\ UNCHANGED <<deploy, db, blobs, runs, ops>>

NextTwitter == FetchTwitter

SpecTwitter == InitTwitter /\ [][NextTwitter]_vars

(***************************************************************************)
(* generateAudio as a function: the script, the configuration and what     *)
(* each provider does are drawn by InitTts, and Generate applies           *)
(* generateAudio to them.                                                  *)
(***************************************************************************)
InitTts ==
    /\ deploy = [route |-> "sync", store |-> "memory"]
    /\ db = EmptyDb
    /\ blobs = {}
    /\ runs = [j \in Jobs |-> IdleRun]
    /\ ops = [o \in OpIds |-> IdleOp]
    /\ call \in {[fn |-> "tts", text |-> t, googleKey |-> gk,
                  elevenLabsKey |-> ek, google |-> g, eleven |-> e,
                  done |-> FALSE, out |-> <<>>] :
                    t \in {TextWhitespace, TextPlain, TextTitled},
                    gk \in BOOLEAN, ek \in BOOLEAN,
                    g \in TtsOutcomes, e \in TtsOutcomes}

Generate ==
    /\ call.fn = "tts"
    /\ ~call.done
    /\ call' = [call EXCEPT
           !.done = TRUE,
           !.out = generateAudio(call.text, call.googleKey, call.elevenLabsKey,
                                 call.google, call.eleven)]
    /\ UNCHANGED <<deploy, db, blobs, runs, ops>>

NextTts == Generate

SpecTts == InitTts /\ [][NextTts]_vars

(***************************************************************************)
(* summarizeForDuration as a function: the content, the duration type,     *)
(* the configuration and what the completion call yields are drawn by      *)
(* InitSummarize, and SummarizeContent applies summarizeForDuration.       *)
(***************************************************************************)
\* word counts at and just above 1.2 times each target and the no-key cut
SummaryWordCounts ==
    {1, NoKeyWordTarget, NoKeyWordTarget + 1}
    \cup UNION {{(12 * DURATION_WORD_TARGETS(dt)) \div 10,
                 (12 * DURATION_WORD_TARGETS(dt)) \div 10 + 1} :
                    dt \in DurationTypes \ {"full"}}

\* texts without terminators at every boundary of the word counts, and two
\* texts of one-word sentences
SummaryContents ==
    {Words(n) : n \in SummaryWordCounts}
    \cup {Sentences((12 * DURATION_WORD_TARGETS("2min")) \div 10 + 1),
          Sentences(NoKeyWordTarget + 1)}

InitSummarize ==
    /\ deploy = [route |-> "sync", store |-> "memory"]
    /\ db = EmptyDb
    /\ blobs = {}
    /\ runs = [j \in Jobs |-> IdleRun]
    /\ ops = [o \in OpIds |-> IdleOp]
    /\ call \in {[fn |-> "summarize", content |-> c, durationType |-> dt,
                  apiKey |-> k, llm |-> l, done |-> FALSE, called |-> FALSE,
                  out |-> <<>>] :
                    c \in SummaryContents, dt \in DurationTypes,
                    k \in BOOLEAN, l \in LlmResults}

SummarizeContent ==
    /\ call.fn = "summarize"
    /\ ~call.done
    /\ call' = [call EXCEPT
           !.done = TRUE,
           !.called = llmCalled(call.content, call.durationType, call.apiKey),
           !.out = summarizeForDuration(call.content, call.durationType,
                                        call.apiKey, call.llm)]
    /\ UNCHANGED <<deploy, db, blobs, runs, ops>>

NextSummarize == SummarizeContent

SpecSummarize == InitSummarize /\ [][NextSummarize]_vars

(***************************************************************************)
(* Requests on a stored job: job 1 has been created from a text and its    *)
(* run is about to start; toggles, deletes, further creates and public     *)
(* reads arrive while the run goes on.                                     *)
(***************************************************************************)
InitShare ==
    /\ deploy \in [route : Routes, store : Stores]
    /\ db = createPodcast(EmptyDb, 1, None, Some(TextPlain))
    /\ blobs = {}
    /\ runs = [j \in Jobs |->
                 IF j = 1
                 THEN [IdleRun EXCEPT !.pc = "start", !.text = Some(TextPlain)]
                 ELSE IdleRun]
    /\ ops = [o \in OpIds |-> IdleOp]
    /\ call = NoCall

NextShare ==
    \/ \E j \in Jobs : StartRun(j)
    \/ \E j \in Jobs : Extract(j)
    \/ \E j \in Jobs : Summarize(j)
    \/ \E j \in Jobs : Synthesize(j)
    \/ \E j \in Jobs : Upload(j)
    \/ \E j \in Jobs : Complete(j)
    \/ \E j \in Jobs : Fail(j)
    \/ \E j \in Jobs : WriteDb(j)
    \/ \E o \in OpIds, kind \in {"toggle", "delete"}, id \in Jobs : OpGet(o, kind, id)
    \/ \E o \in OpIds : ToggleUpdate(o)
    \/ \E o \in OpIds : DeleteAudio(o)
    \/ \E o \in OpIds : DeletePodcast(o)
    \/ \E o \in OpIds : OpWriteDb(o)
    \/ \E kind \in PublicKinds, slug \in Jobs : PublicRead(kind, slug)

SpecShare == InitShare /\ [][NextShare]_vars

(***************************************************************************)
(* The chunk splitter as a function: a text of one to three sentences and  *)
(* a byte budget are drawn by InitChunk, SplitChunks applies the splitter. *)
(***************************************************************************)
\* sentences of words of at most two characters: one or two words, single
\* and double spaces, a two-byte character, without a terminator
ChunkSentences ==
    {<<"a", ".">>,
     <<"a", "a", " ", "b", "b", ".">>,
     <<TwoByteChar, TwoByteChar, " ", "a", "!">>,
     <<"a", " ", " ", "b", "?">>,
     <<"c", "c", " ", "c">>}

MaxChunkSentences == 3

RECURSIVE joinSentences(_)
joinSentences(ss) ==
    IF Len(ss) = 1 THEN ss[1]
    ELSE ss[1] \o <<" ">> \o joinSentences(Tail(ss))

ChunkTexts ==
    {joinSentences(ss) :
        ss \in UNION {[1..n -> ChunkSentences] : n \in 1..MaxChunkSentences}}

\* budgets from the longest word (4 bytes) up
ChunkBudgets == 4..8

InitChunk ==
    /\ deploy = [route |-> "sync", store |-> "memory"]
    /\ db = EmptyDb
    /\ blobs = {}
    /\ runs = [j \in Jobs |-> IdleRun]
    /\ ops = [o \in OpIds |-> IdleOp]
    /\ call \in {[fn |-> "chunk", text |-> t, maxBytes |-> b,
                  done |-> FALSE, out |-> <<>>] :
                    t \in ChunkTexts, b \in ChunkBudgets}

SplitChunks ==
    /\ call.fn = "chunk" /\ ~call.done
    /\ call' = [call EXCEPT !.done = TRUE,
                            !.out = splitTextIntoChunks(call.text, call.maxBytes)]
    /\ UNCHANGED <<deploy, db, blobs, runs, ops>>

NextChunk == SplitChunks

SpecChunk == InitChunk /\ [][NextChunk]_vars

(***************************************************************************)
(* generateWithGoogle on a text of n chunks.  call holds the requests:     *)
(* status[i] is the state of the request for chunk i, order the indexes in *)
(* the order the requests returned, pc the position of generateWithGoogle. *)
(***************************************************************************)
MaxChunks == 3

\* the audio the provider returns for chunk i: i bytes of value i
ChunkAudio(i) == [k \in 1..i |-> i]

\* Buffer.concat
RECURSIVE concat(_)
concat(buffers) ==
    IF buffers = <<>> THEN <<>> ELSE Head(buffers) \o concat(Tail(buffers))

\* a combinator that waits for every request and fulfils whatever they gave
promiseAllState_WhenSettled(status) ==
    IF \E i \in DOMAIN status : status[i] = "pending" THEN "pending"
    ELSE "fulfilled"

\* Promise.all: rejected as soon as one promise is, fulfilled when all are
promiseAllState(status) ==
    IF \E i \in DOMAIN status : status[i] = "error" THEN "rejected"
    ELSE IF \A i \in DOMAIN status : status[i] = "ok" THEN "fulfilled"
    ELSE "pending"

\* the values in the order the promises were fulfilled
promiseAllValues_InSettleOrder(status, order) ==
    [k \in 1..Len(order) |-> ChunkAudio(order[k])]

\* the array Promise.all fulfils with: the values of the fulfilled promises
\* at their indexes
promiseAllValues(status, order) ==
    LET fulfilled == SortedSeq({i \in DOMAIN status : status[i] = "ok"},
                               Len(status))
    IN [k \in 1..Len(fulfilled) |-> ChunkAudio(fulfilled[k])]

InitGoogle ==
    /\ deploy = [route |-> "sync", store |-> "memory"]
    /\ db = EmptyDb
    /\ blobs = {}
    /\ runs = [j \in Jobs |-> IdleRun]
    /\ ops = [o \in OpIds |-> IdleOp]
    /\ call \in {[fn |-> "google", n |-> n, pc |-> "split",
                  status |-> [i \in 1..n |-> "idle"], order |-> <<>>,
                  audio |-> <<>>] : n \in 1..MaxChunks}

\* chunks.map(chunk => generateChunkWithGoogle(...)): every request is sent
\* before generateWithGoogle awaits
Dispatch ==
    /\ call.fn = "google" /\ call.pc = "split"
    /\ call' = [call EXCEPT !.pc = "await",
                            !.status = [i \in 1..call.n |-> "pending"]]
    /\ UNCHANGED <<deploy, db, blobs, runs, ops>>

\* the request for chunk i returns its audio
ChunkReturns(i) ==
    /\ call.fn = "google" /\ i \in 1..call.n
    /\ call.status[i] = "pending"
    /\ call' = [call EXCEPT !.status[i] = "ok", !.order = Append(@, i)]
    /\ UNCHANGED <<deploy, db, blobs, runs, ops>>

\* the request for chunk i throws (fetch fails, response not ok, no audio)
ChunkThrows(i) ==
    /\ call.fn = "google" /\ i \in 1..call.n
    /\ call.status[i] = "pending"
    /\ call' = [call EXCEPT !.status[i] = "error", !.order = Append(@, i)]
    /\ UNCHANGED <<deploy, db, blobs, runs, ops>>

\* await Promise.all(...) returns: the buffers are concatenated and returned
JoinChunks ==
    /\ call.fn = "google" /\ call.pc = "await"
    /\ promiseAllState(call.status) = "fulfilled"
    /\ call' = [call EXCEPT
           !.pc = "returned",
           !.audio = concat(promiseAllValues(call.status, call.order))]
    /\ UNCHANGED <<deploy, db, blobs, runs, ops>>

\* await Promise.all(...) throws: generateWithGoogle throws
RejectChunks ==
    /\ call.fn = "google" /\ call.pc = "await"
    /\ promiseAllState(call.status) = "rejected"
    /\ call' = [call EXCEPT !.pc = "thrown"]
    /\ UNCHANGED <<deploy, db, blobs, runs, ops>>

NextGoogle ==
    \/ Dispatch
    \/ \E i \in 1..MaxChunks : ChunkReturns(i)
    \/ \E i \in 1..MaxChunks : ChunkThrows(i)
    \/ JoinChunks
    \/ RejectChunks

SpecGoogle == InitGoogle /\ [][NextGoogle]_vars

(***************************************************************************)
(* truncateToWordCount called repeatedly on one (content, targetWords), in *)
(* whatever environment the process is in at each call.                    *)
(***************************************************************************)
MaxTruncWords == 4
MaxTarget == 3
MaxCalls == 2

\* words without a terminator, ending a sentence, and a terminator alone
TruncWords == {<<"a">>, <<"a", "a", "a", ".">>, <<"?">>}

TruncContents ==
    {joinSentences(ws) :
        ws \in UNION {[1..n -> TruncWords] : n \in 1..MaxTruncWords}}
    \cup {<<"a", ".", " ", " ", "a">>, <<" ", "a", ".", "\n", "a">>}

\* what a function can read besides its arguments: the configuration
\* (OPENAI_API_KEY set or not) and the clock
Envs == [apiKey : BOOLEAN, now : 0..1]

\* a truncation that keeps a position between calls
truncateCall_KeepsPosition(env, earlier, content, targetWords) ==
    IF earlier = 0 THEN truncateToWordCount(content, targetWords)
    ELSE truncateToWordCount(content, targetWords) \o <<".">>

\* a call of truncateToWordCount in environment env after a number of
\* earlier calls: the body reads its two parameters only
truncateCall(env, earlier, content, targetWords) ==
    truncateToWordCount(content, targetWords)

InitTruncate ==
    /\ deploy = [route |-> "sync", store |-> "memory"]
    /\ db = EmptyDb
    /\ blobs = {}
    /\ runs = [j \in Jobs |-> IdleRun]
    /\ ops = [o \in OpIds |-> IdleOp]
    /\ call \in {[fn |-> "truncate", content |-> c, targetWords |-> t,
                  envs |-> <<>>, outs |-> <<>>] :
                    c \in TruncContents, t \in 1..MaxTarget}

TruncateCall(env) ==
    /\ call.fn = "truncate"
    /\ Len(call.outs) < MaxCalls
    /\ call' = [call EXCEPT
           !.envs = Append(@, env),
           !.outs = Append(@, truncateCall(env, Len(call.outs), call.content,
                                           call.targetWords))]
    /\ UNCHANGED <<deploy, db, blobs, runs, ops>>

NextTruncate == \E env \in Envs : TruncateCall(env)

SpecTruncate == InitTruncate /\ [][NextTruncate]_vars

(***************************************************************************)
(* The duration from synthesis to the job record: steps 3, 5 and 6 of      *)
(* processPodcast on one script, with the providers' keys and outcomes     *)
(* drawn by InitDuration.                                                  *)
(***************************************************************************)
\* the number of characters generateWithElevenLabs submits at most
ElevenLabsMaxChars == 5000

\* text.slice(0, 5000)
elevenLabsSubmitted(text) == SubSeq(text, 1, Min(Len(text), ElevenLabsMaxChars))

\* the estimate taken from the text that was submitted
elevenLabsDuration_OfSubmitted(text) ==
    estimatedDuration(elevenLabsSubmitted(text))

\* generateWithElevenLabs: the estimate is taken from its parameter text
elevenLabsDuration(text) == estimatedDuration(text)

\* generateWithGoogle: the estimate is taken from its parameter text
googleDuration(text) == estimatedDuration(text)

\* what generateAudio returns to processPodcast: the provider that gave the
\* audio, the text it was sent and the duration it returned
synthesize(text, googleKey, elevenLabsKey, google, eleven) ==
    LET r == generateAudio(text, googleKey, elevenLabsKey, google, eleven)
    IN [thrown |-> r.thrown # None,
        from |-> r.from,
        submitted |-> IF r.from = "eleven" THEN elevenLabsSubmitted(text)
                      ELSE IF r.from = "google" THEN text ELSE <<>>,
        duration |-> IF r.from = "eleven" THEN elevenLabsDuration(text)
                     ELSE IF r.from = "google" THEN googleDuration(text)
                     ELSE Rat(0, 1)]

\* a script longer than ElevenLabs is sent
LongScript == Words(ElevenLabsMaxChars \div 2 + 3)

DurationScripts == {TextPlain, TextTitled, Words(5), LongScript}

NoTts == [thrown |-> FALSE, from |-> "none", submitted |-> <<>>,
          duration |-> Rat(0, 1)]

InitDuration ==
    /\ deploy = [route |-> "sync", store |-> "memory"]
    /\ db = EmptyDb
    /\ blobs = {}
    /\ runs = [j \in Jobs |-> IdleRun]
    /\ ops = [o \in OpIds |-> IdleOp]
    /\ call \in {[fn |-> "duration", script |-> t, googleKey |-> gk,
                  elevenLabsKey |-> ek, google |-> g, eleven |-> e,
                  pc |-> "synthesize", tts |-> NoTts, segments |-> <<>>,
                  audioDurationSeconds |-> 0] :
                    t \in DurationScripts,
                    gk \in BOOLEAN, ek \in BOOLEAN,
                    g \in TtsOutcomes, e \in TtsOutcomes}

\* const { audio, duration } = await generateAudio(content, voiceStyle)
SynthesizeScript ==
    /\ call.fn = "duration" /\ call.pc = "synthesize"
    /\ LET r == synthesize(call.script, call.googleKey, call.elevenLabsKey,
                           call.google, call.eleven)
       IN call' = [call EXCEPT !.tts = r,
                               !.pc = IF r.thrown THEN "failed" ELSE "build"]
    /\ UNCHANGED <<deploy, db, blobs, runs, ops>>

\* the segments are built from the duration generateAudio returned
BuildFromDuration ==
    /\ call.fn = "duration" /\ call.pc = "build"
    /\ call' = [call EXCEPT
           !.segments = buildSegments(call.script, call.tts.duration),
           !.pc = "complete"]
    /\ UNCHANGED <<deploy, db, blobs, runs, ops>>

\* audioDurationSeconds: Math.round(duration)
PersistDuration ==
    /\ call.fn = "duration" /\ call.pc = "complete"
    /\ call' = [call EXCEPT
           !.audioDurationSeconds = MathRound(call.tts.duration),
           !.pc = "done"]
    /\ UNCHANGED <<deploy, db, blobs, runs, ops>>

NextDuration ==
    \/ SynthesizeScript
    \/ BuildFromDuration
    \/ PersistDuration

SpecDuration == InitDuration /\ [][NextDuration]_vars

(***************************************************************************)
(* pollPodcastStatus (client).  call holds the poller: attempts is the     *)
(* loop counter i, seen the answers of the polls made so far, pc its       *)
(* position.  An answer is the job as GET /api/podcasts/[id] returns it    *)
(* (status and error_message) or the failure of the request.               *)
(***************************************************************************)
MaxPollAttempts == 3

PollTimeoutMessage == "Timeout waiting for podcast completion"

PollFailedMessage == "Podcast generation failed"

PollNotFoundMessage == "Podcast not found"

\* what a poll can give: a job that is not finished, a completed job, a
\* failed job with the message the catch block recorded, and 404 for a job
\* that has been deleted
PollAnswers ==
    {[ok |-> TRUE, status |-> st, error_message |-> None] :
        st \in {"pending", "uploading", "completed"}}
    \cup {[ok |-> TRUE, status |-> "failed", error_message |-> Some(m)] :
              m \in {"boom", "Unknown error"}}
    \cup {[ok |-> FALSE, status |-> "none", error_message |-> None]}

\* a poller that goes on polling a failed job
afterPoll_IgnoresFailed(answer) ==
    IF ~answer.ok THEN [pc |-> "thrown", error |-> PollNotFoundMessage]
    ELSE IF answer.status = "completed" THEN [pc |-> "returned", error |-> ""]
    ELSE [pc |-> "waiting", error |-> ""]

\* the body of the loop after getPodcast: getPodcast throws the error of a
\* response that is not ok; completed returns; failed throws
\* error_message || 'Podcast generation failed'; else wait 2 seconds
afterPoll(answer) ==
    IF ~answer.ok THEN [pc |-> "thrown", error |-> PollNotFoundMessage]
    ELSE IF answer.status = "completed" THEN [pc |-> "returned", error |-> ""]
    ELSE IF answer.status = "failed"
    THEN [pc |-> "thrown",
          error |-> IF answer.error_message \in {None, Some("")}
                    THEN PollFailedMessage
                    ELSE The(answer.error_message)]
    ELSE [pc |-> "waiting", error |-> ""]

InitPoll ==
    /\ deploy = [route |-> "background", store |-> "memory"]
    /\ db = EmptyDb
    /\ blobs = {}
    /\ runs = [j \in Jobs |-> IdleRun]
    /\ ops = [o \in OpIds |-> IdleOp]
    /\ call \in {[fn |-> "poll", maxAttempts |-> n, attempts |-> 0,
                  seen |-> <<>>, pc |-> "loop", error |-> ""] :
                    n \in 0..MaxPollAttempts}

\* i < maxAttempts: getPodcast and the checks on its answer
Poll(answer) ==
    /\ call.fn = "poll" /\ call.pc = "loop"
    /\ call.attempts < call.maxAttempts
    /\ call' = [call EXCEPT !.seen = Append(@, answer),
                            !.pc = afterPoll(answer).pc,
                            !.error = afterPoll(answer).error]
    /\ UNCHANGED <<deploy, db, blobs, runs, ops>>

\* the 2 second timer fires; i++
PollWait ==
    /\ call.fn = "poll" /\ call.pc = "waiting"
    /\ call' = [call EXCEPT !.pc = "loop", !.attempts = @ + 1]
    /\ UNCHANGED <<deploy, db, blobs, runs, ops>>

\* the loop ends: throw the timeout error
PollTimeout ==
    /\ call.fn = "poll" /\ call.pc = "loop"
    /\ call.attempts >= call.maxAttempts
    /\ call' = [call EXCEPT !.pc = "thrown", !.error = PollTimeoutMessage]
    /\ UNCHANGED <<deploy, db, blobs, runs, ops>>

NextPoll ==
    \/ \E answer \in PollAnswers : Poll(answer)
    \/ PollWait
    \/ PollTimeout

SpecPoll == InitPoll /\ [][NextPoll]_vars

\* every request is answered and every timer fires
SpecPollLive == SpecPoll /\ WF_vars(NextPoll)

(***************************************************************************)
(* The two lookups of the active segment (client): findActiveSegment of    *)
(* the transcript sync hook and the findIndex of the page's                *)
(* handleTimeUpdate.  Times are whole ticks of a quarter second; indexes   *)
(* are those of the code, from 0.                                          *)
(***************************************************************************)
\* the 0.5 seconds findActiveSegment allows after a segment's end, in ticks
HalfSecond == 2

MaxSyncSegments == 3

MaxSegmentTicks == 2

\* the while loop: found at index at, or not found with left = at
RECURSIVE searchLoop(_, _, _, _)
searchLoop(segments, currentTime, left, right) ==
    IF left > right THEN [found |-> FALSE, at |-> left]
    ELSE LET mid == (left + right) \div 2
             segment == segments[mid + 1]
         IN IF currentTime >= segment.start_time
               /\ currentTime < segment.end_time
            THEN [found |-> TRUE, at |-> mid]
            ELSE IF currentTime < segment.start_time
            THEN searchLoop(segments, currentTime, left, mid - 1)
            ELSE searchLoop(segments, currentTime, mid + 1, right)

\* a lookup that takes a segment's end as part of it
findActiveSegment_ClosedEnd(segments, currentTime) ==
    IF \E i \in DOMAIN segments :
           /\ currentTime >= segments[i].start_time
           /\ currentTime <= segments[i].end_time
    THEN (CHOOSE i \in DOMAIN segments :
             /\ currentTime >= segments[i].start_time
             /\ currentTime <= segments[i].end_time
             /\ \A k \in 1..(i - 1) :
                    ~(/\ currentTime >= segments[k].start_time
                      /\ currentTime <= segments[k].end_time)) - 1
    ELSE -1

\* findActiveSegment: binary search, then the segment before left when the
\* time is within half a second after it
findActiveSegment(segments, currentTime) ==
    IF Len(segments) = 0 THEN -1
    ELSE LET r == searchLoop(segments, currentTime, 0, Len(segments) - 1)
         IN IF r.found THEN r.at
            ELSE IF /\ r.at > 0 /\ r.at < Len(segments)
                    /\ currentTime >= segments[r.at].start_time
                    /\ currentTime <= segments[r.at].end_time + HalfSecond
            THEN r.at - 1
            ELSE -1

\* the predicate of the page's findIndex: the segment has started and the
\* next one, if any, has not
startedAndNextNot(segments, time, i) ==
    /\ time >= segments[i].start_time
    /\ i = Len(segments) \/ time < segments[i + 1].start_time

\* transcript.segments.findIndex(...): the first index that satisfies the
\* predicate, -1 when none does
findIndexByStart(segments, time) ==
    IF \E i \in DOMAIN segments : startedAndNextNot(segments, time, i)
    THEN (CHOOSE i \in DOMAIN segments :
             /\ startedAndNextNot(segments, time, i)
             /\ \A k \in 1..(i - 1) : ~startedAndNextNot(segments, time, k)) - 1
    ELSE -1

\* the contiguous transcript whose segments have the given lengths
RECURSIVE SumTo(_, _)
SumTo(lengths, n) == IF n = 0 THEN 0 ELSE lengths[n] + SumTo(lengths, n - 1)

ContiguousSegments(lengths) ==
    [i \in 1..Len(lengths) |->
        [start_time |-> SumTo(lengths, i - 1), end_time |-> SumTo(lengths, i)]]

SyncTranscripts ==
    {ContiguousSegments(lengths) :
        lengths \in UNION {[1..n -> 0..MaxSegmentTicks] : n \in 0..MaxSyncSegments}}

InitSync ==
    /\ deploy = [route |-> "sync", store |-> "memory"]
    /\ db = EmptyDb
    /\ blobs = {}
    /\ runs = [j \in Jobs |-> IdleRun]
    /\ ops = [o \in OpIds |-> IdleOp]
    /\ call \in {[fn |-> "sync", segments |-> segs, currentTime |-> t,
                  done |-> FALSE, activeIndex |-> -1, pageIndex |-> -1] :
                    segs \in SyncTranscripts,
                    t \in 0..(MaxSyncSegments * MaxSegmentTicks + HalfSecond + 1)}

\* a time update: both lookups are made for the playback time
TimeUpdate ==
    /\ call.fn = "sync" /\ ~call.done
    /\ call' = [call EXCEPT
           !.done = TRUE,
           !.activeIndex = findActiveSegment(call.segments, call.currentTime),
           !.pageIndex = findIndexByStart(call.segments, call.currentTime)]
    /\ UNCHANGED <<deploy, db, blobs, runs, ops>>

NextSync == TimeUpdate

SpecSync == InitSync /\ [][NextSync]_vars

(***************************************************************************)
(* Voice resolution as a function: a style and a provider are drawn by     *)
(* InitVoice; MapStyle and PickVoice are the two lookups of a provider.    *)
(***************************************************************************)
InitVoice ==
    /\ deploy = [route |-> "sync", store |-> "memory"]
    /\ db = EmptyDb
    /\ blobs = {}
    /\ runs = [j \in Jobs |-> IdleRun]
    /\ ops = [o \in OpIds |-> IdleOp]
    /\ call \in {[fn |-> "voice", voiceStyle |-> v, provider |-> p,
                  pc |-> "map", mapped |-> Undefined, voice |-> Undefined] :
                    v \in VoiceStyles, p \in Providers}

MapStyle ==
    /\ call.fn = "voice" /\ call.pc = "map"
    /\ call' = [call EXCEPT !.pc = "pick",
                            !.mapped = mappedStyle(call.voiceStyle)]
    /\ UNCHANGED <<deploy, db, blobs, runs, ops>>

PickVoice ==
    /\ call.fn = "voice" /\ call.pc = "pick"
    /\ call' = [call EXCEPT !.pc = "done",
                            !.voice = voiceFor(VoiceTable(call.provider),
                                               call.mapped)]
    /\ UNCHANGED <<deploy, db, blobs, runs, ops>>

NextVoice == MapStyle \/ PickVoice

SpecVoice == InitVoice /\ [][NextVoice]_vars

(***************************************************************************)
(* The run of one job created from a title line and a two-sentence line.   *)
(***************************************************************************)
ExampleTitle ==
    <<"M", "y", " ", "T", "i", "t", "l", "e">>

ExampleBody ==
    <<"T", "h", "i", "s", " ", "i", "s", " ", "a", " ", "s", "t", "o", "r",
      "y", ".", " ", "I", "t", " ", "h", "a", "s", " ", "t", "w", "o", " ",
      "s", "e", "n", "t", "e", "n", "c", "e", "s", ".">>

ExampleText == ExampleTitle \o <<"\n">> \o ExampleBody

InitExample ==
    /\ deploy \in [route : Routes, store : Stores]
    /\ db = createPodcast(EmptyDb, 1, None, Some(ExampleText))
    /\ blobs = {}
    /\ runs = [j \in Jobs |->
                 IF j = 1
                 THEN [IdleRun EXCEPT !.pc = "start", !.text = Some(ExampleText)]
                 ELSE IdleRun]
    /\ ops = [o \in OpIds |-> IdleOp]
    /\ call = NoCall

NextExample ==
    \/ \E j \in Jobs : StartRun(j)
    \/ \E j \in Jobs : Extract(j)
    \/ \E j \in Jobs : Summarize(j)
    \/ \E j \in Jobs : Synthesize(j)
    \/ \E j \in Jobs : Upload(j)
    \/ \E j \in Jobs : Complete(j)
    \/ \E j \in Jobs : Fail(j)
    \/ \E j \in Jobs : WriteDb(j)

SpecExample == InitExample /\ [][NextExample]_vars

(***************************************************************************)
(* Transcript reads of a stored job while its run goes on: job 1 has been  *)
(* created from a text, id 2 is unknown.                                   *)
(***************************************************************************)
NextTranscript ==
    \/ \E j \in Jobs : StartRun(j)
    \/ \E j \in Jobs : Extract(j)
    \/ \E j \in Jobs : Summarize(j)
    \/ \E j \in Jobs : Synthesize(j)
    \/ \E j \in Jobs : Upload(j)
    \/ \E j \in Jobs : Complete(j)
    \/ \E j \in Jobs : Fail(j)
    \/ \E j \in Jobs : WriteDb(j)
    \/ \E id \in Jobs : TranscriptGet(id)
    \/ TranscriptSegments

SpecTranscript == InitShare /\ [][NextTranscript]_vars

(***************************************************************************)
(* Requests on finished jobs: two jobs have been created from a text and   *)
(* their runs have completed; toggles and deletes arrive.                  *)
(***************************************************************************)
\* the database after job id was created in d from text and its run went
\* through every stage, the summarizer returning the content unchanged
completedRun(d, id, text) ==
    LET e == extractFromText(text)
        created == createPodcast(d, id, None, Some(text))
        uploading == updatePodcast(created, id,
                         [title |-> e.title, status |-> "uploading"])
        stored == createTranscriptBatch(uploading, id,
                      buildSegments(e.content, estimatedDuration(e.content)))
    IN updatePodcast(stored, id, completedUpdates(id, e.content))

FinishedJobs == {1, 2}

InitDelete ==
    /\ deploy \in [route : Routes, store : Stores]
    /\ db = completedRun(completedRun(EmptyDb, 1, TextPlain), 2, TextPlain)
    /\ blobs = FinishedJobs
    /\ runs = [j \in Jobs |->
                 IF j \in FinishedJobs
                 THEN [Finished(IdleRun) EXCEPT
                          !.resp = Some([code |-> 201,
                                         status |-> IF deploy.route = "sync"
                                                    THEN "completed"
                                                    ELSE "pending",
                                         error |-> None])]
                 ELSE IdleRun]
    /\ ops = [o \in OpIds |-> IdleOp]
    /\ call = NoCall

NextDelete ==
    \/ \E o \in OpIds, kind \in {"toggle", "delete"}, id \in Jobs : OpGet(o, kind, id)
    \/ \E o \in OpIds : ToggleUpdate(o)
    \/ \E o \in OpIds : DeleteAudio(o)
    \/ \E o \in OpIds : DeletePodcast(o)
    \/ \E o \in OpIds : OpWriteDb(o)

SpecDelete == InitDelete /\ [][NextDelete]_vars

(***************************************************************************)
(* Properties.                                                             *)
(***************************************************************************)
StatusOf(d, j) == getPodcast(d, j).status

\* C1: between any two successive observations of a job's persisted status
\* the status does not move backwards in pending, extracting, processing,
\* generating_audio, uploading, completed; failed may follow any status and
\* is followed only by failed.
C1_ForwardOnly ==
    [][\A j \in Jobs :
          HasJob(db, j) /\ HasJob(db', j) =>
              \/ StatusOf(db', j) = "failed"
              \/ StatusRank(StatusOf(db', j)) >= StatusRank(StatusOf(db, j))]_vars

\* the catch block of run j finishes in this step
CatchEnds(j) == runs[j].pc = "catch" /\ runs'[j].pc = "done"

C3_TerminalIsFinal ==
    [][\A j \in Jobs :
          HasJob(db, j) /\ StatusOf(db, j) \in Terminal =>
              /\ runs[j].pc = "done"
              /\ runs'[j] = runs[j]
              /\ HasJob(db', j) =>
                     /\ ~(StatusOf(db, j) = "completed" /\ StatusOf(db', j) = "failed")
                     /\ ~(StatusOf(db, j) = "failed" /\ StatusOf(db', j) = "completed")]_vars

\* a job is completed while a toggle or delete request is in progress
C3_Witness ==
    /\ \E j \in Jobs : HasJob(db, j) /\ StatusOf(db, j) = "completed"
    /\ \E o \in OpIds : ops[o].pc \in {"got", "blob"}

\* C4: every job record has exactly one of sourceUrl and sourceText set.
C4_ExactlyOneSource ==
    \A i \in DOMAIN db.podcasts :
        (db.podcasts[i].sourceUrl = None) # (db.podcasts[i].sourceText = None)

C6_RunEndsTerminal ==
    \A j \in Jobs :
        runs[j].pc = "done" /\ HasJob(db, j) => StatusOf(db, j) \in Terminal

\* the builder has been applied to the drawn script and duration
Built == call.fn = "build" /\ call.done

Contiguous(out) ==
    \A i \in 1..(Len(out) - 1) : REq(out[i].endTime, out[i + 1].startTime)

\* C7 as claimed: for a script of N >= 1 sentences and duration D the builder
\* returns exactly N segments, the first starting at 0, the last ending at
\* D, each ending where the next starts.
C7_CoversDuration ==
    Built =>
        /\ Len(call.out) = call.n
        /\ call.out[1].startTime.num = 0
        /\ REq(call.out[call.n].endTime, call.duration)
        /\ Contiguous(call.out)

\* C7 amended: for a script of N >= 1 sentences and duration D the builder
\* returns min(N, 100) segments, the first starting at 0, each ending where
\* the next starts, and the last ending at min(N, 100) * D / N, which is D
\* when N <= 100.
C7_CoversKeptShare ==
    Built =>
        LET kept == Min(call.n, MaxSegments)
        IN /\ Len(call.out) = kept
           /\ call.out[1].startTime.num = 0
           /\ Contiguous(call.out)
           /\ REq(call.out[kept].endTime,
                  Rat(kept * call.duration.num, call.n * call.duration.den))
           /\ call.n <= MaxSegments => REq(call.out[kept].endTime, call.duration)

\* the builder was applied to a script of more than 100 sentences with a
\* duration that is not a whole number, and kept 100 of them
C7_Witness ==
    /\ Built
    /\ call.n > MaxSegments
    /\ call.duration.num % call.duration.den # 0
    /\ Len(call.out) = MaxSegments

Completed(j) == HasJob(db, j) /\ StatusOf(db, j) = "completed"

\* C8: every completed job has at least one persisted transcript segment.
C8_CompletedHasSegments ==
    \A j \in Jobs : Completed(j) => Len(getTranscriptSegments(db, j)) >= 1

\* C9: for every completed job, reading the transcript returns segments
\* whose sentenceIndex values are 0, 1, ..., len-1 in this order, so the
\* persisted indexes are exactly 0..len-1, each once.
C9_IndexesInOrder ==
    \A j \in Jobs :
        Completed(j) =>
            LET segs == getTranscriptSegments(db, j)
            IN \A i \in 1..Len(segs) : segs[i].sentenceIndex = i - 1

\* a completed job with several segments, stored after those of another job
C9_Witness ==
    \E j \in Jobs :
        /\ Completed(j)
        /\ Len(getTranscriptSegments(db, j)) >= 2
        /\ db.transcripts[1].podcastId # j

C11_CompletedAtOnce ==
    [][\A j \in Jobs :
          /\ HasJob(db', j) =>
                 LET p == getPodcast(db', j)
                 IN /\ (p.completedAt # None) <=> (p.status = "completed")
                    /\ p.status = "completed" =>
                           /\ p.audioUrl # None
                           /\ p.audioDurationSeconds # None
                           /\ p.script # None
          /\ HasJob(db, j) /\ HasJob(db', j)
                 /\ getPodcast(db, j).completedAt # None =>
                 getPodcast(db', j).completedAt = getPodcast(db, j).completedAt]_vars

\* C12: a job's errorMessage is set only when its status is failed.
C12_ErrorOnlyWhenFailed ==
    \A i \in DOMAIN db.podcasts :
        db.podcasts[i].errorMessage # None => db.podcasts[i].status = "failed"

\* the background run of a job has failed and recorded its message, after
\* the job had been persisted without one
C12_Witness ==
    \E j \in Jobs :
        /\ deploy.route = "background"
        /\ HasJob(db, j)
        /\ StatusOf(db, j) = "failed"
        /\ getPodcast(db, j).errorMessage = Some("boom")

\* fetchTwitterThread has returned for the drawn url and outcomes
Fetched == call.fn = "twitter" /\ call.done /\ call.out.thrown = None

\* a method's outcome is a failure: it throws or its content is too short
FxFails == call.fx.throws \/ Len(call.fx.content) <= 50

RapidFails == call.rapid.throws \/ Len(call.rapid.content) <= 50

Invoked(m) == m \in Range(call.out.calls)

\* C13 as claimed: the methods are invoked in the order fx, rapid, oembed,
\* each only after every earlier one was invoked and failed; the result is
\* that of the first method whose content exceeds its minimum; when the
\* first fails and the second succeeds the result is the second's and the
\* third is not invoked.
C13_StrictOrder ==
    Fetched =>
        /\ Invoked("fx")
        /\ Invoked("rapid") => FxFails
        /\ Invoked("oembed") => FxFails /\ Invoked("rapid") /\ RapidFails
        /\ ~FxFails => call.out.from = "fx" /\ call.out.content = call.fx.content
        /\ FxFails /\ ~RapidFails =>
               /\ call.out.from = "rapid"
               /\ call.out.content = call.rapid.content
               /\ ~Invoked("oembed")
        /\ call.out.from = "oembed" =>
               ~call.oembed.throws /\ Len(call.out.content) > 30

\* C13 amended: the second method is attempted only when its API key is
\* configured; the methods attempted are invoked in the order fx, rapid,
\* oembed, the third only after the first failed and the second failed or
\* was not configured; the result is that of the first attempted method
\* whose content exceeds its minimum; when the first fails and the second
\* is configured and succeeds the result is the second's and the third is
\* not invoked.
C13_OrderAmongAttempted ==
    Fetched =>
        /\ call.out.calls \in {<<"fx">>, <<"fx", "rapid">>, <<"fx", "oembed">>,
                               <<"fx", "rapid", "oembed">>}
        /\ Invoked("rapid") <=> FxFails /\ call.rapidApiKey
        /\ Invoked("oembed") <=>
               FxFails /\ (~call.rapidApiKey \/ RapidFails)
        /\ ~FxFails => call.out.from = "fx" /\ call.out.content = call.fx.content
        /\ FxFails /\ call.rapidApiKey /\ ~RapidFails =>
               /\ call.out.from = "rapid"
               /\ call.out.content = call.rapid.content
               /\ ~Invoked("oembed")
        /\ call.out.from = "oembed" =>
               ~call.oembed.throws /\ Len(call.out.content) > 30

\* the first method threw, the second is configured and returned a long
\* enough thread while the third would have returned one too
C13_Witness ==
    /\ Fetched
    /\ call.fx.throws
    /\ call.rapidApiKey /\ ~RapidFails
    /\ ~call.oembed.throws /\ Len(call.oembed.content) > 30
    /\ call.out.from = "rapid"
    /\ call.out.calls = <<"fx", "rapid">>

\* some path segment 'status' is followed by another segment
HasStatusId(url) ==
    \E i \in 1..(Len(url.path) - 1) : url.path[i] = "status"

\* C14: the extract stage of a run on a Twitter/X url with a status id never
\* enters the catch block: it goes on to persist the title and status
\* processing and then to the summarize stage; on a Twitter/X url without a
\* status id it enters the catch block with the invalid-url error.
C14_TwitterNeverFails ==
    [][\A j \in Jobs :
          /\ Ready(j, "extract")
          /\ runs[j].url # None
          /\ runs'[j] # runs[j]
          => LET url == The(runs[j].url)
             IN /\ isTwitterUrl(url) /\ HasStatusId(url) =>
                       /\ runs'[j].error = None
                       /\ \/ runs'[j].pc = "summarize"
                          \/ /\ runs'[j].pc = "extract"
                             /\ runs'[j].pending.op = "update"
                             /\ runs'[j].pending.updates.status = "processing"
                /\ isTwitterUrl(url) /\ ~HasStatusId(url) =>
                       /\ runs'[j].pc = "catch"
                       /\ runs'[j].error =
                              Some("Invalid Twitter URL: Could not extract tweet ID")]_vars

\* every method failed on a Twitter/X url with a status id and the run is at
\* the summarize stage with the placeholder as content
C14_Witness ==
    \E j \in Jobs :
        /\ runs[j].url = Some(TweetUrl)
        /\ runs[j].pc = "summarize"
        /\ runs[j].script = PlaceholderContent
        /\ HasJob(db, j) /\ StatusOf(db, j) = "processing"

\* C15: with the primary provider configured it is called first; if it
\* returns, its audio is the result and the fallback is not called; if it
\* throws, the fallback is called when configured, and otherwise the
\* primary's error propagates; with the primary not configured the fallback
\* alone is called when configured; with neither configured no provider is
\* called and the configuration error is thrown.
C15_ProviderFallback ==
    call.fn = "tts" /\ call.done =>
        LET o == call.out
        IN /\ call.googleKey /\ ~call.google.throws =>
                  o.thrown = None /\ o.from = "google" /\ o.calls = <<"google">>
           /\ call.googleKey /\ call.google.throws /\ call.elevenLabsKey =>
                  /\ o.calls = <<"google", "eleven">>
                  /\ ~call.eleven.throws => o.thrown = None /\ o.from = "eleven"
                  /\ call.eleven.throws => o.thrown # None
           /\ call.googleKey /\ call.google.throws /\ ~call.elevenLabsKey =>
                  o.calls = <<"google">> /\ o.thrown = Some(<<call.google.msg>>)
           /\ ~call.googleKey /\ call.elevenLabsKey =>
                  /\ o.calls = <<"eleven">>
                  /\ ~call.eleven.throws => o.thrown = None /\ o.from = "eleven"
                  /\ call.eleven.throws => o.thrown = Some(<<call.eleven.msg>>)
           /\ ~call.googleKey /\ ~call.elevenLabsKey =>
                  o.calls = <<>> /\ o.thrown = Some(NoTtsMessage)

\* the primary is not configured and the fallback, called directly, returned
C15_Witness ==
    /\ call.fn = "tts" /\ call.done
    /\ ~call.googleKey /\ call.elevenLabsKey /\ ~call.eleven.throws
    /\ call.out.from = "eleven"
    /\ call.out.calls = <<"eleven">>

Summarized == call.fn = "summarize" /\ call.done

\* the content is within 1.2 times the target of the duration type
WithinTarget ==
    10 * wordCount(call.content)
        <= 12 * (CASE call.durationType = "2min" -> 300
                   [] call.durationType = "5min" -> 750
                   [] call.durationType = "10min" -> 1500
                   [] call.durationType = "full" -> 0)

\* C16: summarize returns the content unchanged, without calling the LLM,
\* whenever the duration type is full or the word count is at most 1.2
\* times the target, whether or not the API key is configured.
C16_UnchangedWithinTarget ==
    Summarized /\ (call.durationType = "full" \/ WithinTarget) =>
        /\ call.out = call.content
        /\ ~call.called

\* the LLM call failed or gave an empty or blank message
LlmGaveNothing == call.llm = None \/ ~NonBlank(The(call.llm))

EndsWith(s, tail) ==
    Len(s) >= Len(tail) /\ SubSeq(s, Len(s) - Len(tail) + 1, Len(s)) = tail

\* C17: when the LLM is called and the call fails or gives an empty result,
\* summarize returns the truncation of the content to the target word count
\* of the requested duration: at most that many words, ending at a sentence
\* terminator or in an ellipsis.
C17_FallbackTruncates ==
    Summarized /\ call.called /\ LlmGaveNothing =>
        LET target == CASE call.durationType = "2min" -> 300
                        [] call.durationType = "5min" -> 750
                        [] call.durationType = "10min" -> 1500
        IN /\ call.out = truncateToWordCount(call.content, target)
           /\ wordCount(call.out) <= target
           /\ \/ EndsWith(call.out, <<".", ".", ".">>)
              \/ call.out[Len(call.out)] \in Terminators
           /\ call.out # call.content

\* the LLM call failed on a content of more than 1.2 * 750 words and the
\* result is the first 750 words followed by an ellipsis
C17_Witness ==
    /\ Summarized /\ call.called /\ call.llm = None
    /\ call.durationType = "5min"
    /\ wordCount(call.content) = 901
    /\ call.out = Words(750) \o <<".", ".", ".">>

\* the job with the id is stored in the file the public routes read, and
\* is public there
PublicInFile(d, id) == HasJob(d, id) /\ getPodcast(d, id).isPublic

\* C18: a public read by slug returns the job exactly when a job with the
\* slug has isPublic true in the file at the time of the read, and a job
\* whose isPublic is false is not made public again by anything but a
\* toggle request on it, so that reads by its slug return not-found until
\* then.
C18_PublicOnlyWhileShared ==
    [][/\ call' # call /\ call'.fn = "public" =>
              /\ call'.resp.code \in {200, 404}
              /\ call'.resp.code = 200 <=>
                     \E i \in DOMAIN dbFile.podcasts :
                         /\ dbFile.podcasts[i].shareSlug = call'.slug
                         /\ dbFile.podcasts[i].isPublic
                         /\ dbFile.podcasts[i].id = call'.resp.id
       /\ \A id \in Jobs :
              /\ HasJob(dbFile, id) /\ ~PublicInFile(dbFile, id)
              /\ PublicInFile(dbFile', id)
              => \E o \in OpIds :
                     /\ ops[o].kind = "toggle" /\ ops[o].id = id
                     /\ ops'[o] # ops[o]]_vars

\* the store operation of request o returns in this step with status code
Applied(o, kind, code) ==
    /\ ops[o].kind = kind
    /\ ops[o].pc # "done" /\ ops'[o].pc = "done"
    /\ ops'[o].resp = Some(code)

\* C19: the update of a toggle request on an existing job negates isPublic
\* and leaves every other field of the job as it was, and no step changes
\* the shareSlug of a job.
C19_ToggleFlipsOnly ==
    [][/\ \A o \in OpIds :
              Applied(o, "toggle", 200) /\ HasJob(db, ops[o].id) =>
                  /\ HasJob(db', ops[o].id)
                  /\ getPodcast(db', ops[o].id) =
                         [getPodcast(db, ops[o].id) EXCEPT !.isPublic = ~@]
       /\ \A id \in Jobs :
              HasJob(db, id) /\ HasJob(db', id) =>
                  getPodcast(db', id).shareSlug = getPodcast(db, id).shareSlug]_vars

SegmentsOf(d, id) == SelectSeq(d.transcripts, LAMBDA t : t.podcastId = id)

\* C20: the deletePodcast call of a delete request on an existing job
\* removes the job's record and all of its segments and leaves the segments
\* of every other job as they were; the request reaches that call whether
\* or not the audio files were removed.
C20_DeleteRemovesOnlyItsJob ==
    [][\A o \in OpIds :
          /\ Applied(o, "delete", 204) /\ HasJob(db, ops[o].id) =>
                 /\ ~HasJob(db', ops[o].id)
                 /\ SegmentsOf(db', ops[o].id) = <<>>
                 /\ \A id \in Jobs \ {ops[o].id} :
                        SegmentsOf(db', id) = SegmentsOf(db, id)
          /\ ops[o].kind = "delete" /\ ops[o].pc = "got" /\ ops'[o] # ops[o] =>
                 ops'[o].pc = "blob"]_vars

\* getPodcast of the transcript request has returned a completed job
AwaitingSegments == call.fn = "transcript" /\ call.pc = "segments"

\* the transcript request is answered in this step
TranscriptAnswered ==
    /\ call'.fn = "transcript" /\ call'.pc = "done"
    /\ call' # call

\* C21: a transcript request by job id is answered 200 with the job's
\* segments only when getPodcast returned the job with status completed; for
\* a job in any other status it is answered 400 without segments, and for
\* an unknown id 404.
C21_TranscriptOnlyWhenCompleted ==
    [][/\ call' # call /\ call'.fn = "transcript" /\ ~AwaitingSegments =>
              /\ ~HasJob(db, call'.id) =>
                     call'.pc = "done" /\ call'.resp = NotFound
              /\ HasJob(db, call'.id) /\ StatusOf(db, call'.id) # "completed" =>
                     call'.pc = "done" /\ call'.resp = [code |-> 400]
              /\ HasJob(db, call'.id) /\ StatusOf(db, call'.id) = "completed" =>
                     call'.pc = "segments"
       /\ TranscriptAnswered /\ call'.resp.code = 200 =>
              /\ AwaitingSegments /\ call.seen = "completed"
              /\ call'.resp.segments = getTranscriptSegments(db, call.id)
       /\ TranscriptAnswered /\ "segments" \in DOMAIN call'.resp =>
              call'.seen = "completed"]_vars

\* a transcript request on a job whose audio is being generated was
\* answered 400
C21_Witness ==
    /\ call.fn = "transcript" /\ call.pc = "done"
    /\ call.seen = "generating_audio"
    /\ call.resp = [code |-> 400]
    /\ HasJob(db, call.id)

\* writeDb of run j, or of request o, returns in this step
RunWrote(j) ==
    runs[j].io = "write" /\ runs'[j].io = "none" /\ runs'[j].cost = runs[j].cost

OpWrote(o) ==
    ops[o].io = "write" /\ ops'[o].io = "none" /\ ops'[o].cost = ops[o].cost

\* C22: no write is made from a stale read: when a store operation writes,
\* the store becomes what the operation makes of the store as it is at that
\* moment, so every created job and the effect of every earlier update stay.
C22_NoLostUpdates ==
    [][/\ \A j \in Jobs :
              RunWrote(j) => db' = ApplyWrite(db, j, runs[j].pending)
       /\ \A o \in OpIds :
              OpWrote(o) => db' = ApplyWrite(db, ops[o].id, ops[o].pending)]_vars

\* the example job is stored with a status the run reaches after extraction
ExampleExtracted ==
    /\ HasJob(db, 1)
    /\ StatusOf(db, 1) \in {"processing", "generating_audio", "uploading",
                            "completed"}

\* the segments are n spans of length span, one after the other from 0
EvenSpans(segs, n, span) ==
    /\ Len(segs) = n
    /\ \A i \in 1..Len(segs) :
           /\ REq(segs[i].startTime, Rat((i - 1) * span.num, span.den))
           /\ REq(segs[i].endTime, Rat(i * span.num, span.den))

\* C23 as claimed: the example yields title 'My Title', the content
\* unchanged by the summarizer, an estimated duration of 9 words / 150 * 60
\* = 3.6 seconds and exactly 2 segments of 1.8 seconds each.
C23_ExampleNineWords ==
    /\ ExampleExtracted => getPodcast(db, 1).title = ExampleTitle
    /\ Completed(1) =>
           /\ getPodcast(db, 1).script = Some(ExampleBody)
           /\ wordCount(ExampleBody) = 9
           /\ REq(estimatedDuration(ExampleBody), Rat(36, 10))
           /\ EvenSpans(getTranscriptSegments(db, 1), 2, Rat(18, 10))

\* C23 amended: the example yields title 'My Title', the content (the
\* second line, 8 words) unchanged by the summarizer, an estimated duration
\* of 8 words / 150 * 60 = 3.2 seconds, persisted rounded as 3, and exactly
\* 2 segments of 1.6 seconds each.
C23_ExampleEightWords ==
    /\ ExampleExtracted => getPodcast(db, 1).title = ExampleTitle
    /\ Completed(1) =>
           /\ getPodcast(db, 1).script = Some(ExampleBody)
           /\ wordCount(ExampleBody) = 8
           /\ REq(estimatedDuration(ExampleBody), Rat(32, 10))
           /\ getPodcast(db, 1).audioDurationSeconds = Some(3)
           /\ EvenSpans(getTranscriptSegments(db, 1), 2, Rat(16, 10))

\* the run of the example job has completed and stored two segments
C23_Witness ==
    /\ Completed(1)
    /\ getPodcast(db, 1).sourceText = Some(ExampleText)
    /\ Len(getTranscriptSegments(db, 1)) = 2
    /\ getTranscriptSegments(db, 1)[2].text
           = SubSeq(ExampleBody, 18, Len(ExampleBody))

VoiceResolved == call.fn = "voice" /\ call.pc = "done"

\* C24: a style outside the canonical keys and legacy aliases resolves to
\* the narrator voice of the provider, every style resolves to a voice the
\* provider has, and every legacy alias resolves to a canonical key, the
\* same on both providers, that has a voice on both.
C24_UnknownStyleIsNarrator ==
    /\ VoiceResolved =>
           /\ call.voice \in {VoiceTable(call.provider)[k] : k \in CanonicalStyles}
           /\ call.voiceStyle \notin LegacyStyles \cup CanonicalStyles =>
                  call.voice = VoiceTable(call.provider).narrator
           /\ call.voiceStyle \in LegacyStyles =>
                  /\ call.mapped \in CanonicalStyles
                  /\ call.mapped \in DOMAIN GOOGLE_VOICES
                  /\ call.mapped \in DOMAIN ELEVENLABS_VOICES
                  /\ call.voice = VoiceTable(call.provider)[call.mapped]
    /\ DOMAIN GOOGLE_VOICES = CanonicalStyles
    /\ DOMAIN ELEVENLABS_VOICES = CanonicalStyles

\* the style 'constructor', which the alias table inherits, was resolved to
\* the narrator voice of the fallback provider
C24_Witness ==
    /\ VoiceResolved
    /\ call.voiceStyle = "constructor"
    /\ call.mapped = Inherited
    /\ call.provider = "eleven"
    /\ call.voice = "21m00Tcm4TlvDq8ikWAM"

Chunked == call.fn = "chunk" /\ call.done

\* the words of a text: the non-empty pieces between whitespace runs
wordsOf(t) == SelectSeq(splitWords(t), LAMBDA w : w # <<>>)

\* C25: when no word of the text is longer than the budget, every chunk the
\* splitter returns has a UTF-8 length of at most the budget.
C25_ChunksWithinBudget ==
    Chunked /\ (\A i \in DOMAIN wordsOf(call.text) :
                    byteLength(wordsOf(call.text)[i]) <= call.maxBytes) =>
        \A k \in DOMAIN call.out : byteLength(call.out[k]) <= call.maxBytes

RECURSIVE wordsOfAll(_)
wordsOfAll(chunks) ==
    IF chunks = <<>> THEN <<>>
    ELSE wordsOf(Head(chunks)) \o wordsOfAll(Tail(chunks))

\* C26: the words of the chunks, taken chunk after chunk, are the words of
\* the text in the same order, and no chunk is empty.
C26_ChunksKeepWords ==
    Chunked =>
        /\ wordsOfAll(call.out) = wordsOf(call.text)
        /\ \A k \in DOMAIN call.out : call.out[k] # <<>>

\* a text of three sentences, the second with a double space, was split
\* into several chunks, one of them cut inside a sentence
C26_Witness ==
    /\ Chunked
    /\ Len(splitAfterTerminator(call.text)) = 3
    /\ Len(call.out) >= 3
    /\ \E k \in DOMAIN call.out : call.out[k] = <<"a", " ">>

\* the audio of chunks 1..n one after the other
AudioInIndexOrder(n) == concat([i \in 1..n |-> ChunkAudio(i)])

\* C27: every chunk request is sent before any is awaited, the primary path
\* goes on only after all of them returned, and the audio it returns is the
\* chunks' audio concatenated in chunk index order, whatever the order in
\* which the requests returned.
C27_ConcatInIndexOrder ==
    call.fn = "google" =>
        /\ call.pc = "split" => \A i \in 1..call.n : call.status[i] = "idle"
        /\ call.pc # "split" => \A i \in 1..call.n : call.status[i] # "idle"
        /\ call.pc = "returned" =>
               /\ \A i \in 1..call.n : call.status[i] = "ok"
               /\ Len(call.order) = call.n
               /\ call.audio = AudioInIndexOrder(call.n)

\* three requests returned last chunk first, and the audio was returned
C27_Witness ==
    /\ call.fn = "google" /\ call.pc = "returned"
    /\ call.order = <<3, 1, 2>>
    /\ call.audio = <<1, 2, 2, 3, 3, 3>>

\* C28: when a chunk request has thrown the primary path never returns
\* audio: it throws, with no audio built from the chunks that returned;
\* the audio it returns holds the audio of every chunk.
C28_NoPartialAudio ==
    call.fn = "google" =>
        /\ (\E i \in 1..call.n : call.status[i] = "error") =>
               call.pc # "returned" /\ call.audio = <<>>
        /\ call.pc = "thrown" =>
               /\ call.audio = <<>>
               /\ \E i \in 1..call.n : call.status[i] = "error"
        /\ call.pc = "returned" =>
               Len(call.audio) = Len(AudioInIndexOrder(call.n))

\* one request threw after another had returned its audio, and the primary
\* path has thrown
C28_Witness ==
    /\ call.fn = "google" /\ call.pc = "thrown"
    /\ call.n = 3
    /\ call.status[1] = "ok"
    /\ call.status[2] = "error"
    /\ call.audio = <<>>

Truncated == call.fn = "truncate" /\ call.outs # <<>>

wordPrefix(content, n) ==
    joinWords(SubSeq(content, 1,
                     SortedSeq(wordBreaks(content), Len(content))[n] - 1))

\* what the rule gives for a content longer than the target when the
\* position of the last terminator is measured in words (the terminator
\* ends word w of the prefix, cut when w >= 70% of the target)
cutByWords(content, targetWords) ==
    LET prefix == wordPrefix(content, targetWords)
        last == lastSentenceEnd(prefix)
    IN IF last > 0
          /\ 10 * wordCount(SubSeq(prefix, 1, last)) >= 7 * targetWords
       THEN SubSeq(prefix, 1, last)
       ELSE prefix \o <<".", ".", ".">>

\* the same with the position measured in characters of the prefix
cutByChars(content, targetWords) ==
    LET prefix == wordPrefix(content, targetWords)
        last == lastSentenceEnd(prefix)
    IN IF last > 0 /\ 10 * last >= 7 * Len(prefix)
       THEN SubSeq(prefix, 1, last)
       ELSE prefix \o <<".", ".", ".">>

\* C30: a content with at most target-many words is returned unchanged; a
\* longer one gives its first target-many words, cut just after their last
\* terminator when that terminator lies at or after 70% of the target
\* length (in words or in characters) and followed by an ellipsis otherwise;
\* the result has at most target-many words.
C30_CutAtSeventyPercent ==
    Truncated =>
        \A i \in DOMAIN call.outs :
            IF wordCount(call.content) <= call.targetWords
            THEN call.outs[i] = call.content
            ELSE /\ call.outs[i] \in {cutByWords(call.content, call.targetWords),
                                      cutByChars(call.content, call.targetWords)}
                 /\ wordCount(call.outs[i]) <= call.targetWords

\* synthesis returned, on either provider path, the estimate taken from the
\* whole script, and the transcript builder was given that value
DurationIsEstimate ==
    /\ call.pc \in {"build", "complete", "done"} =>
           /\ call.tts.from \in {"google", "eleven"}
           /\ call.tts.duration = estimatedDuration(call.script)
    /\ call.pc \in {"complete", "done"} =>
           call.segments =
               buildSegments(call.script, estimatedDuration(call.script))

C32_AtMostHundredSegments ==
    Built =>
        LET sentences == splitSentences(call.content)
        IN /\ Len(sentences) = call.n
           /\ Len(call.out) <= MaxSegments
           /\ Len(call.out) = Min(call.n, MaxSegments)
           /\ \A i \in DOMAIN call.out : call.out[i].text = trim(sentences[i])

\* a script of more than 100 differing sentences was built: the last
\* segment is sentence 100, and sentence 101 differs from it
C32_Witness ==
    /\ Built
    /\ call.content = VariedSentences(call.n)
    /\ call.n > MaxSegments
    /\ Len(call.out) = MaxSegments
    /\ call.out[MaxSegments].text = VariedSentence(MaxSegments)
    /\ VariedSentence(MaxSegments + 1) # VariedSentence(MaxSegments)

\* the catch block of run j finishes in this step and the job's audio blob
\* is stored: the run threw after uploadAudio had saved the audio
FailsAfterUpload(j) == CatchEnds(j) /\ j \in blobs

\* while run j is in its catch block with the job's audio blob stored and
\* no request to delete the job made, no step removes the blob or a
\* persisted transcript segment of j
NoRollback(j) ==
    /\ runs[j].pc = "catch"
    /\ j \in blobs
    /\ \A o \in OpIds : ~(ops'[o].kind = "delete" /\ ops'[o].id = j)
    => /\ j \in blobs'
       /\ Len(SegmentsOf(db, j)) <= Len(SegmentsOf(db', j))
       /\ SegmentsOf(db, j) =
              SubSeq(SegmentsOf(db', j), 1, Len(SegmentsOf(db, j)))

\* the record of job j in d has none of the fields of the completed update
NoCompletionFields(d, j) ==
    /\ getPodcast(d, j).audioUrl = None
    /\ getPodcast(d, j).audioDurationSeconds = None
    /\ getPodcast(d, j).script = None
    /\ getPodcast(d, j).completedAt = None

\* C33 as stated: when a run throws after the audio was uploaded, the blob
\* and the persisted segments remain, and the job becomes failed with no
\* audioUrl, audioDurationSeconds, script or completedAt.
C33_FailedAfterUpload ==
    [][\A j \in Jobs :
          /\ NoRollback(j)
          /\ FailsAfterUpload(j) /\ HasJob(db', j) =>
                 /\ StatusOf(db', j) = "failed"
                 /\ NoCompletionFields(db', j)]_vars

\* the status a run persists just before it persists st; no run persists
\* pending
StatusBefore(st) ==
    CASE st = "extracting" -> "pending"
      [] st = "processing" -> "extracting"
      [] st = "generating_audio" -> "processing"
      [] st = "uploading" -> "generating_audio"
      [] st = "completed" -> "uploading"
      [] OTHER -> "none"

\* the segments stored for job j in d are those of the whole script stored
\* in its record, each once
AllSegmentsStored(d, j) ==
    LET script == The(getPodcast(d, j).script)
    IN getTranscriptSegments(d, j) =
           [i \in 1..Len(buildSegments(script, estimatedDuration(script))) |->
               [podcastId |-> j,
                sentenceIndex |-> i - 1,
                text |-> buildSegments(script, estimatedDuration(script))[i].text,
                startTime |->
                    buildSegments(script, estimatedDuration(script))[i].startTime,
                endTime |->
                    buildSegments(script, estimatedDuration(script))[i].endTime]]

\* C34: a job's persisted status moves to each status of the run from the
\* one before it in the order pending, extracting, processing,
\* generating_audio, uploading, completed; the segments are persisted while
\* the status is uploading, before the completed update, in one batch; so
\* whenever a job is stored as completed its whole set of transcript
\* segments is stored, each segment once.
C34_WritesInOrder ==
    [][\A j \in Jobs :
          /\ HasJob(db, j) /\ HasJob(db', j)
             /\ StatusOf(db', j) # StatusOf(db, j)
             /\ StatusOf(db', j) # "failed"
             => StatusOf(db, j) = StatusBefore(StatusOf(db', j))
          /\ HasJob(db, j) /\ HasJob(db', j)
             /\ SegmentsOf(db', j) # SegmentsOf(db, j)
             => /\ SegmentsOf(db, j) = <<>>
                /\ StatusOf(db, j) = "uploading"
                /\ StatusOf(db', j) = "uploading"
          /\ HasJob(db', j) /\ StatusOf(db', j) = "completed"
             => AllSegmentsStored(db', j)]_vars

\* a delete request on job j has answered 204
Deleted(j) ==
    \E o \in OpIds :
        /\ ops[o].kind = "delete" /\ ops[o].id = j
        /\ ops[o].pc = "done" /\ ops[o].resp = Some(204)

\* C35: every persisted transcript segment belongs to a job that exists,
\* and once a delete request on job j has completed no step stores an audio
\* blob or a transcript segment of j, also while the run of j goes on.
C35_NoOrphans ==
    [][/\ \A i \in DOMAIN db'.transcripts :
              HasJob(db', db'.transcripts[i].podcastId)
       /\ \A j \in Jobs :
              Deleted(j) =>
                  /\ j \in blobs' => j \in blobs
                  /\ Len(SegmentsOf(db', j)) <= Len(SegmentsOf(db, j))]_vars

\* the toggle requests on job j
TogglesOn(j) == {o \in OpIds : ops[o].kind = "toggle" /\ ops[o].id = j}

\* C36: when the only requests made on a stored job are k toggles and all of
\* them have completed, each with status 200, isPublic is its initial value
\* (false) when k is even and the negation when k is odd, in whatever order
\* their reads and writes took place.
C36_TogglesNotLost ==
    \A j \in Jobs :
        /\ HasJob(db, j)
        /\ \A o \in OpIds : ops[o].kind # "none" =>
               /\ o \in TogglesOn(j)
               /\ ops[o].pc = "done"
               /\ ops[o].resp = Some(200)
        => getPodcast(db, j).isPublic = (Cardinality(TogglesOn(j)) % 2 = 1)

\* C37: a public read by the shareSlug of a job that is in the store that
\* create, update and toggle write, with isPublic true there, returns that
\* job (200 with its id; for the transcript, with its stored segments).
C37_PublicReadSeesStore ==
    [][call' # call /\ call'.fn = "public" =>
          \A j \in Jobs :
              /\ HasJob(db, j)
              /\ getPodcast(db, j).isPublic
              /\ getPodcast(db, j).shareSlug = call'.slug
              => /\ call'.resp.code = 200
                 /\ call'.resp.id = j
                 /\ call'.kind = "transcript" =>
                        call'.resp.segments = getTranscriptSegments(db, j)]_vars

PollEnded == call.pc \in {"returned", "thrown"}

\* the answer of the last poll made
LastSeen == call.seen[Len(call.seen)]

\* every poll but the last one saw a job that is not finished
PolledWhileUnfinished ==
    /\ Len(call.seen) <= call.maxAttempts
    /\ \A k \in 1..(Len(call.seen) - 1) :
           call.seen[k].ok /\ call.seen[k].status \notin Terminal

\* the poller returned at a completed job, threw the message of a failed
\* job, or threw the timeout error after maxAttempts polls of an unfinished
\* job
EndedAsClaimed ==
    \/ /\ call.pc = "returned"
       /\ call.seen # <<>>
       /\ LastSeen.ok /\ LastSeen.status = "completed"
    \/ /\ call.pc = "thrown"
       /\ call.seen # <<>>
       /\ LastSeen.ok /\ LastSeen.status = "failed"
       /\ call.error = The(LastSeen.error_message)
    \/ /\ call.pc = "thrown"
       /\ call.error = PollTimeoutMessage
       /\ Len(call.seen) = call.maxAttempts
       /\ \A k \in DOMAIN call.seen :
              call.seen[k].ok /\ call.seen[k].status \notin Terminal

\* the poll request failed and the poller threw its error at once
EndedOnRequestError ==
    /\ call.pc = "thrown"
    /\ call.seen # <<>>
    /\ ~LastSeen.ok
    /\ call.error = PollNotFoundMessage

\* C38 as stated: the poller ends; it returns as soon as a poll sees
\* completed, throws the job's error message as soon as a poll sees failed,
\* and otherwise throws the timeout error after exactly maxAttempts polls;
\* it does not poll after a terminal status.
C38_PollerEnds ==
    /\ [](call.fn = "poll" =>
             /\ PolledWhileUnfinished
             /\ PollEnded => EndedAsClaimed
             /\ ~PollEnded /\ call.seen # <<>> =>
                    LastSeen.ok /\ LastSeen.status \notin Terminal)
    /\ <>(call.fn = "poll" /\ PollEnded)

\* C38 amended: the poller ends; it returns as soon as a poll sees
\* completed, throws the job's error message as soon as a poll sees failed,
\* throws the request's error as soon as a poll request fails, and otherwise
\* throws the timeout error after exactly maxAttempts polls; it does not poll
\* after a terminal status or a failed request.
C38_PollerEndsOrRequestFails ==
    /\ [](call.fn = "poll" =>
             /\ PolledWhileUnfinished
             /\ PollEnded => EndedAsClaimed \/ EndedOnRequestError
             /\ ~PollEnded /\ call.seen # <<>> =>
                    LastSeen.ok /\ LastSeen.status \notin Terminal)
    /\ <>(call.fn = "poll" /\ PollEnded)

\* the poller saw an unfinished job twice and then a failed one, and threw
\* the job's message
C38_Witness ==
    /\ call.fn = "poll" /\ call.pc = "thrown"
    /\ Len(call.seen) = 3
    /\ call.seen[1].status = "pending"
    /\ call.seen[3].status = "failed"
    /\ call.error = "boom"

\* the playback time lies in segment i (index from 0) of the transcript
Within(i) ==
    /\ call.segments[i + 1].start_time <= call.currentTime
    /\ call.currentTime < call.segments[i + 1].end_time

\* C39: on a contiguous transcript, for a playback time from 0 to before the
\* last end_time, findActiveSegment returns the one index whose segment
\* holds the time, and the page's lookup selects the same index; on any
\* contiguous transcript it returns -1 only when there are no segments or
\* no segment holds the time.
C39_LookupsAgree ==
    call.fn = "sync" /\ call.done =>
        LET n == Len(call.segments)
        IN /\ n > 0 /\ call.currentTime < call.segments[n].end_time =>
                  /\ call.activeIndex \in 0..(n - 1)
                  /\ Within(call.activeIndex)
                  /\ \A i \in 0..(n - 1) : Within(i) => i = call.activeIndex
                  /\ call.pageIndex = call.activeIndex
           /\ call.activeIndex = -1 =>
                  n = 0 \/ \A i \in 0..(n - 1) : ~Within(i)

\* the playback time is the end of the first and the start of the second
\* of three segments, and both lookups gave the second
C39_Witness ==
    /\ call.fn = "sync" /\ call.done
    /\ Len(call.segments) = 3
    /\ call.currentTime = call.segments[1].end_time
    /\ call.segments[1].end_time > 0
    /\ call.segments[2].end_time > call.segments[2].start_time
    /\ call.activeIndex = 1
    /\ call.pageIndex = 1

====
